---- MODULE Spec2Model ----
(***************************************************************************)
(* A model of the CRYPTEX vulnerability-assessment crates:                 *)
(*   the_assessor    (TheAssessor: score cache and enrichment pipeline)    *)
(*   the_infiltrator (TheInfiltrator, ScanContext, ScanReport)             *)
(*   the_collective  (TheMemory: reply cache with TTL)                     *)
(*   the_archive     (TheArchive: CBOR records in three tables)            *)
(*                                                                         *)
(* Option<T> is modelled as a sequence: None is << >>, Some(x) is <<x>>.   *)
(* Scores (f64 in the source) are kept in thousandths: 10.0 is 10000 and   *)
(* an EPSS score of 0.975 is 975.                                          *)
(***************************************************************************)
EXTENDS Integers, Sequences, FiniteSets, Bags, TLC

VARIABLES
    \* ---- the_assessor: TheAssessor and the tasks calling it
    score_cache,    \* TheAssessor.score_cache: cve_id -> VulnerabilityScore
    pc,             \* per task: position inside the call it is running
    call,           \* per task: the call it runs (operation and arguments)
    score,          \* per task: the in-progress `score` of assess_vulnerability
    aret,           \* per task: the value assess_vulnerability returned
    ret,            \* per task: the value the task's call returned
    batch,          \* per task: assess_multiple's loop state
    ran,            \* per task: the enrichment steps the current call has run
    computed,       \* cve_id -> number of scores fully computed for it
    nops,           \* number of calls started so far
    \* ---- the_infiltrator: TheInfiltrator
    scans,          \* TheInfiltrator.scans: scan_id -> ScanContext
    stats,          \* TheInfiltrator.stats: BridgeStatistics
    next_scan,      \* number of scan ids handed out (uuid::Uuid::new_v4)
    end_ok,         \* per scan id: number of end_scan calls that returned Ok
    \* ---- the_infiltrator: one ScanReport fed by add_result
    report,         \* a ScanReport
    added,          \* the bag of results handed to report.add_result
    \* ---- the_collective: TheMemory
    entries,        \* TheMemory.entries: key -> CacheEntry
    ttl,            \* TheMemory.ttl, in seconds
    max_size,       \* TheMemory.max_size
    pending,        \* per task: a store that computed expires_at, not yet locked
    mem_ret,        \* what the last TheMemory call returned
    mem_ops,        \* number of TheMemory calls started
    last_evicted,   \* the entry the last store removed to make room
    \* ---- the_archive: TheArchive
    scans_table,    \* SCANS_TABLE: scan_id -> bytes
    vulns_table,    \* VULNERABILITIES_TABLE: cve_id -> bytes
    results_table,  \* SCAN_RESULTS_TABLE: "scan_id:cve_id:host:port" -> bytes
    arch_last,      \* per table and key: the value of the last successful store,
                    \* and the keys stored more than once
    arch_ops,       \* number of TheArchive calls made
    arch_ret,       \* what the last TheArchive call returned
    \* ---- the clock (SystemTime::now / Utc::now), in seconds
    now,
    \* ---- the last application of a function: its name, argument and result
    eval,
    \* ---- the_collective: TheCollective and the tasks calling the_inquiry_sync
    awakened,       \* the_awakening has returned Ok(TheCollective)
    agitators,      \* TheCollective.agitators: the AgitatorType of each
    observer,       \* TheObserver's counters
    inquiry_of,     \* per task: the the_inquiry_sync call it runs and its position
    inquiry_ret,    \* per task: what its last the_inquiry_sync call returned
    agitations,     \* number of the_agitation calls made on the agitators
    inquiries,      \* number of the_inquiry_sync calls started
    \* ---- the_interface: the REST handlers over TheInfiltrator and TheArchive
    api_ret,        \* what the last handler returned
    api_ops,        \* number of handler calls made
    \* ---- the RwLocks of TheInfiltrator (scans, stats) and TheAssessor (cache)
    lock_pc,        \* per task: the method it runs, its lock instructions, its position
    held,           \* per task: the guards it holds, in the order it acquired them
    lock_calls      \* number of method calls started

assessorVars == <<score_cache, pc, call, score, aret, ret, batch, ran, computed, nops>>
infiltratorVars == <<scans, stats, next_scan, end_ok>>
reportVars == <<report, added>>
memoryVars == <<entries, ttl, max_size, pending, mem_ret, mem_ops, last_evicted>>
archiveVars == <<scans_table, vulns_table, results_table, arch_last, arch_ret, arch_ops>>
collectiveVars ==
    <<awakened, agitators, observer, inquiry_of, inquiry_ret, agitations, inquiries>>
interfaceVars == <<api_ret, api_ops>>
lockVars == <<lock_pc, held, lock_calls>>
vars == <<assessorVars, infiltratorVars, reportVars, memoryVars, archiveVars, now, eval,
          collectiveVars, interfaceVars, lockVars>>

(***************************************************************************)
(* Bounds of the model.                                                    *)
(***************************************************************************)
MaxOps == 3
MaxBatch == 2
MaxTime == 2
MaxResults == 3
MaxScans == 2
MaxScanOps == 3
MaxSize == 2
MaxTtl == 2
MaxMemOps == 3
MaxArchiveOps == 4
MaxVulns == 3

Tasks == {"t1", "t2"}
\* the task that makes the batch calls (the other one makes single calls)
BatchTasks == {"t1"}

None == << >>
Some(x) == <<x>>
IsSome(o) == Len(o) = 1
Unwrap(o) == o[1]

Min(a, b) == IF a < b THEN a ELSE b

\* a map (HashMap / table) is a function on the set of its keys
EmptyMap == << >>
MapInsert(m, k, v) == (k :> v) @@ m
MapRemove(m, k) == [x \in (DOMAIN m) \ {k} |-> m[x]]

(***************************************************************************)
(* the_assessor/src/types.rs: VulnerabilityScore                           *)
(***************************************************************************)
CveIds == {"CVE-2021-44228", "CVE-2024-0001"}

\* VulnerabilityScore::new
NewVulnerabilityScore(cve_id) ==
    [cve_id |-> cve_id,
     vulnerability_name |-> None,
     cvss_v3 |-> None,
     kev |-> None,
     epss |-> None,
     ai_risk_score |-> None,
     ai_priority |-> None,
     ai_remediation_urgency |-> None]

\* VulnerabilityScore::cvss_base_score
cvss_base_score(s) == IF IsSome(s.cvss_v3) THEN Unwrap(s.cvss_v3).base_score ELSE 0

\* VulnerabilityScore::severity
severity(s) == IF IsSome(s.cvss_v3) THEN Unwrap(s.cvss_v3).severity ELSE "None"

\* VulnerabilityScore::is_kev
is_kev(s) == IF IsSome(s.kev) THEN Unwrap(s.kev).is_kev ELSE FALSE

(***************************************************************************)
(* the_assessor/src/scoring.rs: the enrichment steps.  The three fetchers  *)
(* are stubs of calls to external services; each returns CryptexResult<()> *)
(* and the caller applies `?` to it, so a step either fills the score in   *)
(* (the stub's body) or fails.                                             *)
(***************************************************************************)
\* score.cve_id.starts_with("CVE-2021-44228"), over CveIds
StartsWithLog4Shell(cve_id) == cve_id = "CVE-2021-44228"

\* cvss_v3_from_vector("CVSS:3.1/AV:N/AC:L/PR:N/UI:N/S:C/C:H/I:H/A:H")
Log4ShellCvss == [base_score |-> 10000, severity |-> "Critical"]

fetch_nvd_data(s) ==
    IF StartsWithLog4Shell(s.cve_id)
    THEN [s EXCEPT !.vulnerability_name = Some("Apache Log4j2 Remote Code Execution"),
                   !.cvss_v3 = Some(Log4ShellCvss)]
    ELSE s

fetch_kev_data(s) ==
    IF StartsWithLog4Shell(s.cve_id)
    THEN [s EXCEPT !.kev = Some([is_kev |-> TRUE])]
    ELSE s

fetch_epss_data(s) ==
    IF StartsWithLog4Shell(s.cve_id)
    THEN [s EXCEPT !.epss = Some([score |-> 975])]
    ELSE s

\* ai_enhance_score with the EPSS boost from 0.5 on instead of above 0.5
ai_enhance_score_BoostAtHalf(s) ==
    LET base_score == cvss_base_score(s)
        kev == is_kev(s)
        epss_score == IF IsSome(s.epss) THEN Unwrap(s.epss).score ELSE 0
        boosted == IF kev THEN Min((base_score * 13) \div 10, 10000) ELSE base_score
        ai_risk == IF epss_score >= 500
                   THEN Min(boosted + epss_score * 2, 10000)
                   ELSE boosted
        priority == IF ai_risk >= 9000 THEN "IMMEDIATE"
                    ELSE IF ai_risk >= 7000 THEN "HIGH"
                    ELSE IF ai_risk >= 4000 THEN "MEDIUM"
                    ELSE "LOW"
        urgency == IF kev THEN "Patch within 24 hours"
                   ELSE IF ai_risk >= 9000 THEN "Patch within 7 days"
                   ELSE IF ai_risk >= 7000 THEN "Patch within 30 days"
                   ELSE "Patch as part of regular cycle"
    IN  [s EXCEPT !.ai_risk_score = Some(ai_risk),
                  !.ai_priority = Some(priority),
                  !.ai_remediation_urgency = Some(urgency)]

\* ai_enhance_score with the KEV arm of the urgency match after the score arms
ai_enhance_score_KevArmLast(s) ==
    LET base_score == cvss_base_score(s)
        kev == is_kev(s)
        epss_score == IF IsSome(s.epss) THEN Unwrap(s.epss).score ELSE 0
        boosted == IF kev THEN Min((base_score * 13) \div 10, 10000) ELSE base_score
        ai_risk == IF epss_score > 500
                   THEN Min(boosted + epss_score * 2, 10000)
                   ELSE boosted
        priority == IF ai_risk >= 9000 THEN "IMMEDIATE"
                    ELSE IF ai_risk >= 7000 THEN "HIGH"
                    ELSE IF ai_risk >= 4000 THEN "MEDIUM"
                    ELSE "LOW"
        urgency == IF ai_risk >= 9000 THEN "Patch within 7 days"
                   ELSE IF ai_risk >= 7000 THEN "Patch within 30 days"
                   ELSE IF kev THEN "Patch within 24 hours"
                   ELSE "Patch as part of regular cycle"
    IN  [s EXCEPT !.ai_risk_score = Some(ai_risk),
                  !.ai_priority = Some(priority),
                  !.ai_remediation_urgency = Some(urgency)]

\* TheAssessor::ai_enhance_score
ai_enhance_score(s) ==
    LET base_score == cvss_base_score(s)
        kev == is_kev(s)
        epss_score == IF IsSome(s.epss) THEN Unwrap(s.epss).score ELSE 0
        boosted == IF kev THEN Min((base_score * 13) \div 10, 10000) ELSE base_score
        ai_risk == IF epss_score > 500
                   THEN Min(boosted + epss_score * 2, 10000)
                   ELSE boosted
        priority == IF ai_risk >= 9000 THEN "IMMEDIATE"
                    ELSE IF ai_risk >= 7000 THEN "HIGH"
                    ELSE IF ai_risk >= 4000 THEN "MEDIUM"
                    ELSE "LOW"
        urgency == IF kev THEN "Patch within 24 hours"
                   ELSE IF ai_risk >= 9000 THEN "Patch within 7 days"
                   ELSE IF ai_risk >= 7000 THEN "Patch within 30 days"
                   ELSE "Patch as part of regular cycle"
    IN  [s EXCEPT !.ai_risk_score = Some(ai_risk),
                  !.ai_priority = Some(priority),
                  !.ai_remediation_urgency = Some(urgency)]

\* TheAssessor.enable_ai_enhancement, set by the_awakening
enable_ai_enhancement == TRUE

(***************************************************************************)
(* Values returned by calls: CryptexResult<T>.                             *)
(***************************************************************************)
RetBase == [ok |-> TRUE, score |-> None, scores |-> << >>, report |-> None,
            stats |-> None, scan_id |-> 0, err |-> ""]
Ok(s) == [RetBase EXCEPT !.score = Some(s)]
OkScores(ss) == [RetBase EXCEPT !.scores = ss]
OkReport(r) == [RetBase EXCEPT !.report = Some(r)]
OkStats(st) == [RetBase EXCEPT !.stats = Some(st)]
OkScanId(id) == [RetBase EXCEPT !.scan_id = id]
OkUnit == RetBase
Err(e) == [RetBase EXCEPT !.ok = FALSE, !.err = e]

NoCall == [op |-> "none", cve_id |-> "", scan_id |-> 0, host |-> "", port |-> 0,
           target |-> ""]
NoBatch == [ids |-> << >>, idx |-> 0, scores |-> << >>, outcomes |-> << >>]

Idle(t) == pc[t] \in {"idle", "returned"}

\* TheAssessor's code touches nothing of the other components
AssessorFrame == UNCHANGED <<infiltratorVars, reportVars, memoryVars, archiveVars, now, eval,
                 collectiveVars, interfaceVars,
                 lockVars>>

\* a task starts a call: the values of the previous call are dropped
BeginWithin(t, c, at, max) ==
    /\ Idle(t)
    /\ nops < max
    /\ nops' = nops + 1
    /\ call' = [call EXCEPT ![t] = c]
    /\ pc' = [pc EXCEPT ![t] = at]
    /\ ret' = [ret EXCEPT ![t] = None]
    /\ aret' = [aret EXCEPT ![t] = None]
    /\ ran' = [ran EXCEPT ![t] = << >>]
    /\ score' = [score EXCEPT ![t] = NewVulnerabilityScore("")]

Begin(t, c, at) == BeginWithin(t, c, at, MaxOps)

Step(name, ok) == [step |-> name, ok |-> ok]

\* BatchNext leaving the loop at the first error
BatchNext_Abort(b, r) ==
    [b EXCEPT !.scores = IF r.ok THEN Append(@, Unwrap(r.score)) ELSE @,
              !.outcomes = Append(@, r),
              !.idx = IF r.ok THEN @ + 1 ELSE Len(b.ids) + 1]

\* `match self.assess_vulnerability(cve_id).await` in assess_multiple: push
\* the score, or log the error and go on
BatchNext(b, r) ==
    [b EXCEPT !.scores = IF r.ok THEN Append(@, Unwrap(r.score)) ELSE @,
              !.outcomes = Append(@, r),
              !.idx = @ + 1]

\* assess_vulnerability returns r to the code that called it
AssessReturn(t, r) ==
    /\ aret' = [aret EXCEPT ![t] = Some(r)]
    /\ IF call[t].op = "assess_multiple"
       THEN /\ batch' = [batch EXCEPT ![t] = BatchNext(@, r)]
            /\ pc' = [pc EXCEPT ![t] = "batch_loop"]
            /\ UNCHANGED ret
       ELSE IF call[t].op = "on_vulnerability_detected"
       THEN /\ pc' = [pc EXCEPT ![t] = IF r.ok THEN "detect_enhanced" ELSE "detect_add"]
            /\ UNCHANGED <<ret, batch>>
       ELSE /\ ret' = [ret EXCEPT ![t] = Some(r)]
            /\ pc' = [pc EXCEPT ![t] = "returned"]
            /\ UNCHANGED batch

(***************************************************************************)
(* TheAssessor::assess_vulnerability, one action per await point.          *)
(***************************************************************************)
StartAssess(t, cve_id) ==
    /\ Begin(t, [NoCall EXCEPT !.op = "assess_vulnerability", !.cve_id = cve_id],
             "cache_check")
    /\ batch' = [batch EXCEPT ![t] = NoBatch]
    /\ UNCHANGED <<score_cache, computed>>
    /\ AssessorFrame

\* the read-locked cache lookup
CacheCheck(t) ==
    /\ pc[t] = "cache_check"
    /\ IF call[t].cve_id \in DOMAIN score_cache
       THEN /\ AssessReturn(t, Ok(score_cache[call[t].cve_id]))
            /\ UNCHANGED score
       ELSE /\ score' = [score EXCEPT ![t] = NewVulnerabilityScore(call[t].cve_id)]
            /\ pc' = [pc EXCEPT ![t] = "fetch_nvd"]
            /\ UNCHANGED <<aret, ret, batch>>
    /\ UNCHANGED <<score_cache, call, ran, computed, nops>>
    /\ AssessorFrame

\* `self.fetch_X(&mut score).await?`: on Ok go on to `next`, on Err return it
FetchStep(t, name, fetched, next, ok) ==
    /\ pc[t] = name
    /\ ran' = [ran EXCEPT ![t] = Append(@, Step(name, ok))]
    /\ IF ok
       THEN /\ score' = [score EXCEPT ![t] = fetched]
            /\ pc' = [pc EXCEPT ![t] = next]
            /\ UNCHANGED <<aret, ret, batch>>
       ELSE /\ AssessReturn(t, Err(name))
            /\ UNCHANGED score
    /\ UNCHANGED <<score_cache, call, computed, nops>>
    /\ AssessorFrame

\* FetchNvd with the error logged and dropped instead of returned by `?`
FetchNvd_Swallowed(t) ==
    \E ok \in BOOLEAN :
        /\ pc[t] = "fetch_nvd"
        /\ ran' = [ran EXCEPT ![t] = Append(@, Step("fetch_nvd", ok))]
        /\ score' = [score EXCEPT ![t] = IF ok THEN fetch_nvd_data(@) ELSE @]
        /\ pc' = [pc EXCEPT ![t] = "fetch_kev"]
        /\ UNCHANGED <<score_cache, call, aret, ret, batch, computed, nops>>
        /\ AssessorFrame

FetchNvd(t) ==
    \E ok \in BOOLEAN : FetchStep(t, "fetch_nvd", fetch_nvd_data(score[t]), "fetch_kev", ok)

\* FetchKev with the partial score cached before the error is returned
FetchKev_CachesPartial(t) ==
    \E ok \in BOOLEAN :
        /\ pc[t] = "fetch_kev"
        /\ ran' = [ran EXCEPT ![t] = Append(@, Step("fetch_kev", ok))]
        /\ IF ok
           THEN /\ score' = [score EXCEPT ![t] = fetch_kev_data(@)]
                /\ pc' = [pc EXCEPT ![t] = "fetch_epss"]
                /\ UNCHANGED <<score_cache, aret, ret, batch>>
           ELSE /\ score_cache' = MapInsert(score_cache, call[t].cve_id, score[t])
                /\ AssessReturn(t, Err("fetch_kev"))
                /\ UNCHANGED score
        /\ UNCHANGED <<call, computed, nops>>
        /\ AssessorFrame

FetchKev(t) ==
    \E ok \in BOOLEAN : FetchStep(t, "fetch_kev", fetch_kev_data(score[t]), "fetch_epss", ok)

FetchEpss(t) ==
    \E ok \in BOOLEAN : FetchStep(t, "fetch_epss", fetch_epss_data(score[t]), "ai_enhance", ok)

AiEnhance(t) ==
    /\ pc[t] = "ai_enhance"
    /\ score' = [score EXCEPT ![t] = IF enable_ai_enhancement
                                     THEN ai_enhance_score(@) ELSE @]
    /\ ran' = [ran EXCEPT ![t] = Append(@, Step("ai_enhance", TRUE))]
    /\ computed' = [computed EXCEPT ![call[t].cve_id] = @ + 1]
    /\ pc' = [pc EXCEPT ![t] = "cache_insert"]
    /\ UNCHANGED <<score_cache, call, aret, ret, batch, nops>>
    /\ AssessorFrame

\* the write-locked insert, then Ok(score)
CacheInsert(t) ==
    /\ pc[t] = "cache_insert"
    /\ score_cache' = MapInsert(score_cache, call[t].cve_id, score[t])
    /\ AssessReturn(t, Ok(score[t]))
    /\ UNCHANGED <<call, score, ran, computed, nops>>
    /\ AssessorFrame

(***************************************************************************)
(* TheAssessor::assess_multiple                                            *)
(***************************************************************************)
BatchInputs == UNION {[1..n -> CveIds] : n \in 0..MaxBatch}

StartBatch(t, ids) ==
    /\ t \in BatchTasks
    /\ Begin(t, [NoCall EXCEPT !.op = "assess_multiple"], "batch_loop")
    /\ batch' = [batch EXCEPT ![t] = [NoBatch EXCEPT !.ids = ids, !.idx = 1]]
    /\ UNCHANGED <<score_cache, computed>>
    /\ AssessorFrame

\* `for cve_id in cve_ids`: call assess_vulnerability on the next id, or
\* leave the loop and return Ok(scores)
BatchLoop(t) ==
    /\ pc[t] = "batch_loop"
    /\ IF batch[t].idx <= Len(batch[t].ids)
       THEN /\ call' = [call EXCEPT ![t].cve_id = batch[t].ids[batch[t].idx]]
            /\ pc' = [pc EXCEPT ![t] = "cache_check"]
            /\ aret' = [aret EXCEPT ![t] = None]
            /\ ran' = [ran EXCEPT ![t] = << >>]
            /\ UNCHANGED ret
       ELSE /\ ret' = [ret EXCEPT ![t] = Some(OkScores(batch[t].scores))]
            /\ pc' = [pc EXCEPT ![t] = "returned"]
            /\ UNCHANGED <<call, aret, ran>>
    /\ UNCHANGED <<score_cache, score, batch, computed, nops>>
    /\ AssessorFrame

AssessorInit ==
    /\ score_cache = EmptyMap
    /\ pc = [t \in Tasks |-> "idle"]
    /\ call = [t \in Tasks |-> NoCall]
    /\ score = [t \in Tasks |-> NewVulnerabilityScore("")]
    /\ aret = [t \in Tasks |-> None]
    /\ ret = [t \in Tasks |-> None]
    /\ batch = [t \in Tasks |-> NoBatch]
    /\ ran = [t \in Tasks |-> << >>]
    /\ computed = [c \in CveIds |-> 0]
    /\ nops = 0

AssessorNext ==
    \E t \in Tasks :
        \/ \E cve_id \in CveIds : StartAssess(t, cve_id)
        \/ \E ids \in BatchInputs : StartBatch(t, ids)
        \/ CacheCheck(t)
        \/ FetchNvd(t)
        \/ FetchKev(t)
        \/ FetchEpss(t)
        \/ AiEnhance(t)
        \/ CacheInsert(t)
        \/ BatchLoop(t)

(***************************************************************************)
(* Claims about TheAssessor.                                               *)
(***************************************************************************)
StepOrder == <<"fetch_nvd", "fetch_kev", "fetch_epss", "ai_enhance">>
FailedSteps(r) == {i \in 1..Len(r) : ~r[i].ok}
Last(q) == q[Len(q)]

\* C1: enrichment is executed at most once per cve_id: once a score for an
\* id has been computed, every other request for the id, later or
\* concurrent, is served from the cache and no second score is computed.
C1_ComputedAtMostOnce == \A c \in CveIds : computed[c] <= 1

\* what holds of a call in which an enrichment step has failed
ErrorReturned(t) ==
    FailedSteps(ran[t]) # {} =>
        /\ FailedSteps(ran[t]) = {Len(ran[t])}
        /\ \A i \in 1..Len(ran[t]) : ran[t][i].step = StepOrder[i]
        /\ aret[t] = Some(Err(Last(ran[t]).step))
        /\ call[t].op = "assess_vulnerability" =>
               pc[t] = "returned" /\ ret[t] = Some(Err(Last(ran[t]).step))

\* C2: if an enrichment step of assess_vulnerability fails, the call returns
\* the error of the first failing step, no later step is run, and the cache
\* is unchanged: only a call whose steps all succeeded inserts its score.
C2_FirstErrorReturned ==
    [][/\ \A t \in Tasks : ErrorReturned(t)'
       /\ \A t \in Tasks :
              (Len(ran'[t]) > Len(ran[t]) /\ ~Last(ran'[t]).ok) =>
                  score_cache' = score_cache
       /\ score_cache' # score_cache =>
              \E t \in Tasks :
                  /\ pc[t] = "cache_insert"
                  /\ FailedSteps(ran[t]) = {}
                  /\ Len(ran[t]) = Len(StepOrder)
                  /\ score_cache' = MapInsert(score_cache, call[t].cve_id, score[t])
      ]_vars

C2_Witness ==
    \E t \in Tasks :
        /\ pc[t] = "returned"
        /\ ret[t] = Some(Err("fetch_kev"))
        /\ ran[t] = <<Step("fetch_nvd", TRUE), Step("fetch_kev", FALSE)>>
        /\ call[t].cve_id \notin DOMAIN score_cache

NvdFailed(t) == ran[t] # << >> /\ ran[t][1] = Step("fetch_nvd", FALSE)

\* C3 as stated: a failure of the NVD fetcher does not abort the assessment:
\* assess_vulnerability still returns a VulnerabilityScore for the id.
C3_NvdFailureStillScores ==
    \A t \in Tasks :
        (pc[t] = "returned" /\ call[t].op = "assess_vulnerability" /\ NvdFailed(t)) =>
            Unwrap(ret[t]).ok /\ IsSome(Unwrap(ret[t]).score)

\* C3 as amended: a failure of the NVD fetcher aborts the assess_vulnerability
\* call of that id, which returns the NVD error without running the other
\* steps; it does not abort a batch: assess_multiple goes on to the next id
\* and returns Ok.
C3_NvdFailureAbortsOnlyThatId ==
    \A t \in Tasks :
        /\ (call[t].op = "assess_vulnerability" /\ NvdFailed(t)) =>
               /\ pc[t] = "returned"
               /\ ret[t] = Some(Err("fetch_nvd"))
               /\ Len(ran[t]) = 1
        /\ \A i \in 1..Len(batch[t].outcomes) :
               batch[t].outcomes[i] = Err("fetch_nvd") =>
                   /\ batch[t].idx > i
                   /\ pc[t] = "returned" =>
                          /\ Unwrap(ret[t]).ok
                          /\ Len(batch[t].outcomes) = Len(batch[t].ids)

C3_Witness ==
    \E t \in Tasks :
        /\ call[t].op = "assess_multiple"
        /\ pc[t] = "returned"
        /\ Len(batch[t].ids) = 2
        /\ batch[t].outcomes[1] = Err("fetch_nvd")
        /\ batch[t].outcomes[2].ok
        /\ Len(Unwrap(ret[t]).scores) = 1

\* the scores of the successful outcomes, in order
ScoresOf(outs) ==
    LET oks == SelectSeq(outs, LAMBDA r : r.ok)
    IN  [i \in 1..Len(oks) |-> Unwrap(oks[i].score)]

\* C4: assess_multiple never fails: it processes every id of the input even
\* after earlier ids failed and returns Ok with exactly the scores of the ids
\* whose assessment succeeded, one per occurrence and in input order; the
\* number of failures is the input length minus the output length.
C4_BatchReturnsSuccesses ==
    \A t \in Tasks :
        (call[t].op = "assess_multiple" /\ pc[t] = "returned") =>
            LET b == batch[t]
                r == Unwrap(ret[t])
            IN  /\ r.ok
                /\ Len(b.outcomes) = Len(b.ids)
                /\ \A i \in 1..Len(b.outcomes) :
                       b.outcomes[i].ok =>
                           Unwrap(b.outcomes[i].score).cve_id = b.ids[i]
                /\ r.scores = ScoresOf(b.outcomes)
                /\ Cardinality(FailedSteps(b.outcomes)) = Len(b.ids) - Len(r.scores)

C4_Witness ==
    \E t \in Tasks :
        /\ call[t].op = "assess_multiple"
        /\ pc[t] = "returned"
        /\ Len(batch[t].ids) = 2
        /\ ~batch[t].outcomes[1].ok
        /\ batch[t].outcomes[2].ok
        /\ Unwrap(ret[t]).scores = <<Unwrap(batch[t].outcomes[2].score)>>

(***************************************************************************)
(* the_infiltrator/src/types.rs: ScanResult and ScanReport                 *)
(***************************************************************************)
\* ScanResult::new (plugin_oid, description, detection_time and
\* scanner_version are carried along unread and are left out)
NewScanResult(cve_id, host, port) ==
    [cve_id |-> cve_id, host |-> host, port |-> port,
     vulnerability_score |-> None, remediation_guidance |-> None]

\* ScanResult::is_kev
ScanResult_is_kev(r) ==
    IF IsSome(r.vulnerability_score) THEN is_kev(Unwrap(r.vulnerability_score)) ELSE FALSE

\* ScanReport::new
NewScanReport(scan_id, target, t) ==
    [scan_id |-> scan_id, target |-> target, start_time |-> t, end_time |-> None,
     status |-> "Running", scan_results |-> << >>, total_vulnerabilities |-> 0,
     critical_count |-> 0, high_count |-> 0, medium_count |-> 0, low_count |-> 0,
     kev_count |-> 0, total_hosts |-> 0, ai_enhanced_count |-> 0]

\* add_result counting a High result as Critical
ScanReport_add_result_HighAsCritical(rep, r) ==
    LET sev == IF IsSome(r.vulnerability_score)
               THEN severity(Unwrap(r.vulnerability_score)) ELSE "NoScore"
    IN  [rep EXCEPT
           !.critical_count = IF sev \in {"Critical", "High"} THEN @ + 1 ELSE @,
           !.medium_count = IF sev = "Medium" THEN @ + 1 ELSE @,
           !.low_count = IF sev = "Low" THEN @ + 1 ELSE @,
           !.kev_count = IF ScanResult_is_kev(r) THEN @ + 1 ELSE @,
           !.ai_enhanced_count = IF IsSome(r.remediation_guidance) THEN @ + 1 ELSE @,
           !.total_vulnerabilities = @ + 1,
           !.scan_results = Append(@, r)]

\* ScanReport::add_result
ScanReport_add_result(rep, r) ==
    LET sev == IF IsSome(r.vulnerability_score)
               THEN severity(Unwrap(r.vulnerability_score)) ELSE "NoScore"
    IN  [rep EXCEPT
           !.critical_count = IF sev = "Critical" THEN @ + 1 ELSE @,
           !.high_count = IF sev = "High" THEN @ + 1 ELSE @,
           !.medium_count = IF sev = "Medium" THEN @ + 1 ELSE @,
           !.low_count = IF sev = "Low" THEN @ + 1 ELSE @,
           !.kev_count = IF ScanResult_is_kev(r) THEN @ + 1 ELSE @,
           !.ai_enhanced_count = IF IsSome(r.remediation_guidance) THEN @ + 1 ELSE @,
           !.total_vulnerabilities = @ + 1,
           !.scan_results = Append(@, r)]

\* ScanReport::complete
ScanReport_complete(rep, t) == [rep EXCEPT !.end_time = Some(t), !.status = "Completed"]

\* BridgeStatistics::default (avg_enhancement_time_ms, a wall-clock average,
\* and the never-written cache_hits / cache_misses are left out)
DefaultStatistics ==
    [total_scans |-> 0, active_scans |-> 0, total_vulnerabilities_detected |-> 0,
     kev_vulnerabilities_detected |-> 0, critical_vulnerabilities_detected |-> 0,
     ai_enhanced_results |-> 0]

(***************************************************************************)
(* the_infiltrator/src/context.rs: ScanContext and HostContext             *)
(***************************************************************************)
\* ScanContext::new
NewScanContext(scan_id, target, t) ==
    [scan_id |-> scan_id, target |-> target, start_time |-> t,
     hosts |-> EmptyMap, results |-> << >>]

\* HostContext::add_vulnerability
HostContext_add_vulnerability(h, cve_id) ==
    IF \E i \in 1..Len(h.vulnerabilities) : h.vulnerabilities[i] = cve_id
    THEN h
    ELSE [h EXCEPT !.vulnerabilities = Append(@, cve_id)]

\* ScanContext::add_result
ScanContext_add_result(ctx, r) ==
    [ctx EXCEPT
       !.hosts = IF r.host \in DOMAIN @
                 THEN [@ EXCEPT ![r.host] = HostContext_add_vulnerability(@, r.cve_id)]
                 ELSE @,
       !.results = Append(@, r)]

\* `for result in &self.results { report.add_result(result.clone()) }`
RECURSIVE AddResults(_, _, _)
AddResults(rep, results, i) ==
    IF i > Len(results) THEN rep
    ELSE AddResults(ScanReport_add_result(rep, results[i]), results, i + 1)

\* ScanContext::generate_report
generate_report(ctx, t) ==
    LET fresh == [NewScanReport(ctx.scan_id, ctx.target, t) EXCEPT
                    !.start_time = ctx.start_time,
                    !.total_hosts = Cardinality(DOMAIN ctx.hosts)]
    IN  ScanReport_complete(AddResults(fresh, ctx.results, 1), t)

(***************************************************************************)
(* A ScanReport fed by add_result with results of every kind.              *)
(***************************************************************************)
Severities ==
    {<<"None", 0>>, <<"Low", 2000>>, <<"Medium", 5300>>, <<"High", 7500>>,
     <<"Critical", 9800>>}

ScoreInputs ==
    {[NewVulnerabilityScore("CVE-2024-0001") EXCEPT !.cvss_v3 = cv, !.kev = k] :
        cv \in {None} \cup {Some([base_score |-> sv[2], severity |-> sv[1]]) :
                               sv \in Severities},
        k \in {None, Some([is_kev |-> TRUE]), Some([is_kev |-> FALSE])}}

ResultInputs ==
    {NewScanResult("CVE-2024-0001", "192.168.1.100", 443)}
    \cup {[NewScanResult(sc.cve_id, "192.168.1.100", 443) EXCEPT
             !.vulnerability_score = Some(sc),
             !.remediation_guidance = Some("guidance")] : sc \in ScoreInputs}

ReportInit ==
    /\ report = NewScanReport(1, "192.168.1.0/24", 0)
    /\ added = EmptyBag

ReportAddResult(r) ==
    /\ Len(report.scan_results) < MaxResults
    /\ report' = ScanReport_add_result(report, r)
    /\ added' = added (+) SetToBag({r})
    /\ UNCHANGED <<assessorVars, infiltratorVars, memoryVars, archiveVars, now, eval,
                 collectiveVars, interfaceVars,
                 lockVars>>

ReportNext == \E r \in ResultInputs : ReportAddResult(r)

(***************************************************************************)
(* the_infiltrator/src/scanner.rs: TheInfiltrator.  Every block that holds *)
(* a lock runs without an await inside it, so it is one atomic action;     *)
(* start_scan takes the statistics lock while it holds the scans lock and  *)
(* no other code holds one lock while waiting for the other.               *)
(***************************************************************************)
ScanIds == 1..MaxScans
Hosts == {"192.168.1.100"}
Targets == {"192.168.1.0/24"}

InfiltratorInit ==
    /\ scans = EmptyMap
    /\ stats = DefaultStatistics
    /\ next_scan = 0
    /\ end_ok = [id \in ScanIds |-> 0]

\* TheInfiltrator.enable_ai_enhancement, set by the_awakening
infiltrator_enable_ai_enhancement == TRUE

InfiltratorFrame == UNCHANGED <<reportVars, memoryVars, archiveVars, now, eval,
                 collectiveVars, interfaceVars,
                 lockVars>>

\* what a call entry leaves alone
EntryFrame == UNCHANGED <<score_cache, batch, computed>>

\* what a step of a TheInfiltrator method leaves alone of the assessor
BodyFrame == UNCHANGED <<score_cache, call, score, batch, ran, computed, nops>>

Return(t, r) ==
    /\ ret' = [ret EXCEPT ![t] = Some(r)]
    /\ pc' = [pc EXCEPT ![t] = "returned"]

\* start_scan: the scan id is a fresh uuid
StartScan(t, target) ==
    /\ next_scan < MaxScans
    /\ BeginWithin(t, [NoCall EXCEPT !.op = "start_scan", !.target = target,
                                     !.scan_id = next_scan + 1],
                   "start_insert", MaxScanOps)
    /\ next_scan' = next_scan + 1
    /\ UNCHANGED <<scans, stats, end_ok>>
    /\ EntryFrame /\ InfiltratorFrame

\* start_scan: insert the context and count the scan, under both locks
StartInsert(t) ==
    /\ pc[t] = "start_insert"
    /\ scans' = MapInsert(scans, call[t].scan_id,
                          NewScanContext(call[t].scan_id, call[t].target, now))
    /\ stats' = [stats EXCEPT !.total_scans = @ + 1, !.active_scans = @ + 1]
    /\ Return(t, OkScanId(call[t].scan_id))
    /\ UNCHANGED <<next_scan, end_ok, aret>>
    /\ BodyFrame /\ InfiltratorFrame

\* on_vulnerability_detected: entry, up to the call of assess_vulnerability
Detect(t, scan_id, cve_id, host) ==
    /\ BeginWithin(t, [NoCall EXCEPT !.op = "on_vulnerability_detected",
                                     !.scan_id = scan_id, !.cve_id = cve_id,
                                     !.host = host, !.port = 443],
                   "cache_check", MaxScanOps)
    /\ UNCHANGED infiltratorVars
    /\ EntryFrame /\ InfiltratorFrame

\* generate_remediation_guidance: a text made from the score
generate_remediation_guidance(s) ==
    <<IF IsSome(s.vulnerability_name) THEN Unwrap(s.vulnerability_name) ELSE s.cve_id,
      severity(s), is_kev(s), s.ai_priority, s.ai_remediation_urgency>>

\* the `result` local of on_vulnerability_detected after the match
DetectResult(t) ==
    LET r == Unwrap(aret[t])
        base == NewScanResult(call[t].cve_id, call[t].host, call[t].port)
    IN  IF r.ok
        THEN [base EXCEPT
                !.vulnerability_score = r.score,
                !.remediation_guidance =
                    IF infiltrator_enable_ai_enhancement
                    THEN Some(generate_remediation_guidance(Unwrap(r.score)))
                    ELSE None]
        ELSE base

\* Ok(score) arm: remediation guidance and the ai_enhanced_results counter
DetectEnhanced(t) ==
    /\ pc[t] = "detect_enhanced"
    /\ stats' = IF infiltrator_enable_ai_enhancement
                THEN [stats EXCEPT !.ai_enhanced_results = @ + 1]
                ELSE stats
    /\ pc' = [pc EXCEPT ![t] = "detect_stats"]
    /\ UNCHANGED <<scans, next_scan, end_ok, aret, ret>>
    /\ BodyFrame /\ InfiltratorFrame

\* Ok(score) arm: the "Update statistics" block
DetectStats(t) ==
    LET s == Unwrap(Unwrap(aret[t]).score)
    IN  /\ pc[t] = "detect_stats"
        /\ stats' = [stats EXCEPT
                       !.total_vulnerabilities_detected = @ + 1,
                       !.kev_vulnerabilities_detected = IF is_kev(s) THEN @ + 1 ELSE @,
                       !.critical_vulnerabilities_detected =
                           IF severity(s) = "Critical" THEN @ + 1 ELSE @]
        /\ pc' = [pc EXCEPT ![t] = "detect_add"]
        /\ UNCHANGED <<scans, next_scan, end_ok, aret, ret>>
        /\ BodyFrame /\ InfiltratorFrame

\* "Add result to scan context", or NotFound
DetectAdd(t) ==
    /\ pc[t] = "detect_add"
    /\ IF call[t].scan_id \in DOMAIN scans
       THEN /\ scans' = [scans EXCEPT ![call[t].scan_id] =
                                          ScanContext_add_result(@, DetectResult(t))]
            /\ Return(t, OkUnit)
       ELSE /\ Return(t, Err("NotFound"))
            /\ UNCHANGED scans
    /\ UNCHANGED <<stats, next_scan, end_ok, aret>>
    /\ BodyFrame /\ InfiltratorFrame

EndScan(t, scan_id) ==
    /\ BeginWithin(t, [NoCall EXCEPT !.op = "end_scan", !.scan_id = scan_id],
                   "end_remove", MaxScanOps)
    /\ UNCHANGED infiltratorVars
    /\ EntryFrame /\ InfiltratorFrame

\* end_scan keeping the context in the map (get instead of remove)
EndRemove_Keeps(t) ==
    /\ pc[t] = "end_remove"
    /\ IF call[t].scan_id \in DOMAIN scans
       THEN /\ aret' = [aret EXCEPT ![t] =
                          Some(OkReport(generate_report(scans[call[t].scan_id], now)))]
            /\ pc' = [pc EXCEPT ![t] = "end_stats"]
            /\ UNCHANGED ret
       ELSE /\ Return(t, Err("NotFound"))
            /\ UNCHANGED aret
    /\ UNCHANGED <<scans, stats, next_scan, end_ok>>
    /\ BodyFrame /\ InfiltratorFrame

\* end_scan: remove the context and generate the report, or NotFound
EndRemove(t) ==
    /\ pc[t] = "end_remove"
    /\ IF call[t].scan_id \in DOMAIN scans
       THEN /\ scans' = MapRemove(scans, call[t].scan_id)
            /\ aret' = [aret EXCEPT ![t] =
                          Some(OkReport(generate_report(scans[call[t].scan_id], now)))]
            /\ pc' = [pc EXCEPT ![t] = "end_stats"]
            /\ UNCHANGED ret
       ELSE /\ Return(t, Err("NotFound"))
            /\ UNCHANGED <<scans, aret>>
    /\ UNCHANGED <<stats, next_scan, end_ok>>
    /\ BodyFrame /\ InfiltratorFrame

\* end_scan that leaves active_scans as it is
EndStats_NoDecrement(t) ==
    /\ pc[t] = "end_stats"
    /\ Return(t, Unwrap(aret[t]))
    /\ end_ok' = [end_ok EXCEPT ![call[t].scan_id] = @ + 1]
    /\ UNCHANGED <<scans, stats, next_scan, aret>>
    /\ BodyFrame /\ InfiltratorFrame

\* end_scan: active_scans.saturating_sub(1), then Ok(report)
EndStats(t) ==
    /\ pc[t] = "end_stats"
    /\ stats' = [stats EXCEPT !.active_scans = IF @ > 0 THEN @ - 1 ELSE 0]
    /\ Return(t, Unwrap(aret[t]))
    /\ end_ok' = [end_ok EXCEPT ![call[t].scan_id] = @ + 1]
    /\ UNCHANGED <<scans, next_scan, aret>>
    /\ BodyFrame /\ InfiltratorFrame

GetScanContext(t, scan_id) ==
    /\ BeginWithin(t, [NoCall EXCEPT !.op = "get_scan_context", !.scan_id = scan_id],
                   "get_context", MaxScanOps)
    /\ UNCHANGED infiltratorVars
    /\ EntryFrame /\ InfiltratorFrame

\* get_scan_context: the report of the context, under the read lock
GetContextRead(t) ==
    /\ pc[t] = "get_context"
    /\ IF call[t].scan_id \in DOMAIN scans
       THEN Return(t, OkReport(generate_report(scans[call[t].scan_id], now)))
       ELSE Return(t, Err("NotFound"))
    /\ UNCHANGED <<infiltratorVars, aret>>
    /\ BodyFrame /\ InfiltratorFrame

GetStatistics(t) ==
    /\ BeginWithin(t, [NoCall EXCEPT !.op = "get_statistics"], "get_stats", MaxScanOps)
    /\ UNCHANGED infiltratorVars
    /\ EntryFrame /\ InfiltratorFrame

GetStatisticsRead(t) ==
    /\ pc[t] = "get_stats"
    /\ Return(t, OkStats(stats))
    /\ UNCHANGED <<infiltratorVars, aret>>
    /\ BodyFrame /\ InfiltratorFrame

ResetStatistics(t) ==
    /\ BeginWithin(t, [NoCall EXCEPT !.op = "reset_statistics"], "reset_stats", MaxScanOps)
    /\ UNCHANGED infiltratorVars
    /\ EntryFrame /\ InfiltratorFrame

ResetStatisticsWrite(t) ==
    /\ pc[t] = "reset_stats"
    /\ stats' = DefaultStatistics
    /\ Return(t, OkUnit)
    /\ UNCHANGED <<scans, next_scan, end_ok, aret>>
    /\ BodyFrame /\ InfiltratorFrame

\* the clock advances
Tick ==
    /\ now < MaxTime
    /\ now' = now + 1
    /\ UNCHANGED <<assessorVars, infiltratorVars, reportVars, memoryVars, archiveVars, eval,
                 collectiveVars, interfaceVars,
                 lockVars>>

InfiltratorNext ==
    \E t \in Tasks :
        \/ \E target \in Targets : StartScan(t, target)
        \/ StartInsert(t)
        \/ \E scan_id \in ScanIds, cve_id \in CveIds, host \in Hosts :
               Detect(t, scan_id, cve_id, host)
        \/ CacheCheck(t)
        \/ FetchNvd(t)
        \/ FetchKev(t)
        \/ FetchEpss(t)
        \/ AiEnhance(t)
        \/ CacheInsert(t)
        \/ DetectEnhanced(t)
        \/ DetectStats(t)
        \/ DetectAdd(t)
        \/ \E scan_id \in ScanIds : EndScan(t, scan_id)
        \/ EndRemove(t)
        \/ EndStats(t)
        \/ \E scan_id \in ScanIds : GetScanContext(t, scan_id)
        \/ GetContextRead(t)
        \/ GetStatistics(t)
        \/ GetStatisticsRead(t)
        \/ ResetStatistics(t)
        \/ ResetStatisticsWrite(t)

\* TheInfiltrator on which reset_statistics is never called
InfiltratorNoResetNext ==
    \E t \in Tasks :
        \/ \E target \in Targets : StartScan(t, target)
        \/ StartInsert(t)
        \/ \E scan_id \in ScanIds, cve_id \in CveIds, host \in Hosts :
               Detect(t, scan_id, cve_id, host)
        \/ CacheCheck(t)
        \/ FetchNvd(t)
        \/ FetchKev(t)
        \/ FetchEpss(t)
        \/ AiEnhance(t)
        \/ CacheInsert(t)
        \/ DetectEnhanced(t)
        \/ DetectStats(t)
        \/ DetectAdd(t)
        \/ \E scan_id \in ScanIds : EndScan(t, scan_id)
        \/ EndRemove(t)
        \/ EndStats(t)

(***************************************************************************)
(* Claims about ScanReport and TheInfiltrator                              *)
(***************************************************************************)
\* the number of added results, with multiplicity, that satisfy P
AddedCount(P(_)) ==
    BagCardinality([r \in {x \in BagToSet(added) : P(x)} |-> added[r]])

HasSeverity(r, sv) ==
    /\ IsSome(r.vulnerability_score)
    /\ IsSome(Unwrap(r.vulnerability_score).cvss_v3)
    /\ Unwrap(Unwrap(r.vulnerability_score).cvss_v3).severity = sv

IsCriticalResult(r) == HasSeverity(r, "Critical")
IsHighResult(r) == HasSeverity(r, "High")
IsMediumResult(r) == HasSeverity(r, "Medium")
IsLowResult(r) == HasSeverity(r, "Low")

IsKevResult(r) ==
    /\ IsSome(r.vulnerability_score)
    /\ IsSome(Unwrap(r.vulnerability_score).kev)
    /\ Unwrap(Unwrap(r.vulnerability_score).kev).is_kev

\* C5: after any sequence of add_result calls each severity count is the
\* number of added results whose score has that severity, kev_count is the
\* number of added KEV results and total_vulnerabilities is the length of
\* scan_results; results without a score or of severity None are in no
\* bucket.  The counts are a function of the bag of added results, so they
\* do not depend on the order of insertion.
C5_CountsMatchAdded ==
    /\ report.critical_count = AddedCount(IsCriticalResult)
    /\ report.high_count = AddedCount(IsHighResult)
    /\ report.medium_count = AddedCount(IsMediumResult)
    /\ report.low_count = AddedCount(IsLowResult)
    /\ report.kev_count = AddedCount(IsKevResult)
    /\ report.total_vulnerabilities = Len(report.scan_results)
    /\ report.total_vulnerabilities = BagCardinality(added)

\* three results added: a Critical KEV one, a High one and one in no bucket
C5_Witness ==
    /\ report.total_vulnerabilities = 3
    /\ report.critical_count = 1
    /\ report.high_count = 1
    /\ report.kev_count = 1
    /\ report.medium_count + report.low_count = 0
    /\ IsCriticalResult(report.scan_results[3])

ReturnedFrom(t, op) ==
    /\ pc[t] = "returned"
    /\ call[t].op = op
    /\ IsSome(ret[t])

IsNotFound(r) == ~r.ok /\ r.err = "NotFound"

\* C6: a report obtained by get_scan_context for a scan that has not been
\* ended has end_time = None and a status other than Completed.
C6_RunningReportHasNoEndTime ==
    \A t \in Tasks :
        (ReturnedFrom(t, "get_scan_context") /\ Unwrap(ret[t]).ok)
        => LET rep == Unwrap(Unwrap(ret[t]).report)
           IN  rep.end_time = None /\ rep.status # "Completed"

\* a step of task t that performs the scans-map lookup of its call
Lookup(t) == pc[t] \in {"end_remove", "detect_add", "get_context"} /\ pc'[t] # pc[t]

\* the outcome of the lookup step of task t is NotFound
LookupNotFound(t) == pc'[t] = "returned" /\ IsNotFound(Unwrap(ret'[t]))

\* C7: a scan is ended at most once.  end_scan returns NotFound for an id
\* that is not active (never started, or already taken by another end_scan)
\* and goes on to return the report otherwise, so of concurrent end_scan
\* calls for one id exactly one returns the report; once an end_scan has
\* returned Ok, the id never becomes active again and end_scan,
\* on_vulnerability_detected and get_scan_context for it return NotFound.
C7_EndScanAtMostOnce ==
    [][ /\ \A id \in ScanIds :
              /\ end_ok'[id] <= 1
              /\ end_ok[id] >= 1 => id \notin DOMAIN scans'
        /\ \A t \in Tasks :
              /\ (pc[t] = "end_remove" /\ Lookup(t))
                 => IF call[t].scan_id \in DOMAIN scans
                    THEN /\ pc'[t] = "end_stats"
                         /\ Unwrap(aret'[t]).ok
                         /\ call[t].scan_id \notin DOMAIN scans'
                    ELSE LookupNotFound(t)
              /\ (pc[t] = "end_stats" /\ pc'[t] = "returned")
                 => /\ Unwrap(ret'[t]).ok
                    /\ IsSome(Unwrap(ret'[t]).report)
              /\ (Lookup(t) /\ end_ok[call[t].scan_id] >= 1) => LookupNotFound(t)
      ]_vars

\* two concurrent end_scan calls for a started scan: one has taken the
\* context and is about to return the report, the other returned NotFound
C7_Witness ==
    /\ pc["t1"] = "end_stats"
    /\ ReturnedFrom("t2", "end_scan")
    /\ call["t2"].scan_id = call["t1"].scan_id
    /\ IsNotFound(Unwrap(ret["t2"]))

\* on_vulnerability_detected returned NotFound for a scan that was ended
C7_WitnessAfterEnd ==
    /\ ReturnedFrom("t1", "on_vulnerability_detected")
    /\ end_ok[call["t1"].scan_id] = 1
    /\ IsNotFound(Unwrap(ret["t1"]))

NoCallInProgress == \A t \in Tasks : Idle(t)

\* C27: without reset_statistics, whenever no call is in progress,
\* active_scans is the size of the scan map and total_scans is the number of
\* start_scan calls; an end_scan that fails with NotFound changes neither the
\* statistics nor the map.
C27_ActiveScansMatchMap ==
    /\ [](NoCallInProgress =>
            /\ stats.active_scans = Cardinality(DOMAIN scans)
            /\ stats.total_scans = next_scan)
    /\ [][\A t \in Tasks :
            (pc[t] = "end_remove" /\ LookupNotFound(t))
                => (stats' = stats /\ scans' = scans)]_vars

\* one scan is active and an end_scan of an unknown id has failed
C27_Witness ==
    /\ NoCallInProgress
    /\ \E t \in Tasks : ReturnedFrom(t, "end_scan") /\ IsNotFound(Unwrap(ret[t]))
    /\ stats.active_scans = 1
    /\ stats.total_scans = 1
    /\ DOMAIN scans = {1}

\* a scan was started and ended, and no call is in progress
C27_WitnessEnded ==
    /\ NoCallInProgress
    /\ \E t \in Tasks : ReturnedFrom(t, "end_scan") /\ Unwrap(ret[t]).ok
    /\ stats.active_scans = 0
    /\ stats.total_scans = 1

RECURSIVE SumOver(_, _)
SumOver(f, S) ==
    IF S = {} THEN 0
    ELSE LET x == CHOOSE y \in S : TRUE IN f[x] + SumOver(f, S \ {x})

\* the number of results recorded in the active scans
RecordedResults == SumOver([id \in DOMAIN scans |-> Len(scans[id].results)], DOMAIN scans)

\* C28: on_vulnerability_detected updates the statistics exactly when it
\* records a result: with no call in progress, no reset and no scan ended,
\* total_vulnerabilities_detected is the number of results recorded in the
\* scans (a call that returned NotFound recorded none).
C28_StatsFollowRecordedResults ==
    (NoCallInProgress /\ \A id \in ScanIds : end_ok[id] = 0)
        => stats.total_vulnerabilities_detected = RecordedResults

\* the hosts among a scan's results
HostsOf(results) == {results[i].host : i \in 1..Len(results)}

\* the CVEs detected on a host
CvesOn(results, host) ==
    {results[i].cve_id : i \in {j \in 1..Len(results) : results[j].host = host}}

\* C30: the hosts of a scan are the distinct hosts among its results, and
\* each host's vulnerability list holds every CVE detected on it exactly
\* once.
C30_HostProfileFollowsResults ==
    \A id \in DOMAIN scans :
        LET ctx == scans[id]
        IN  /\ DOMAIN ctx.hosts = HostsOf(ctx.results)
            /\ \A host \in DOMAIN ctx.hosts :
                 LET vs == ctx.hosts[host].vulnerabilities
                 IN  /\ {vs[i] : i \in 1..Len(vs)} = CvesOn(ctx.results, host)
                     /\ \A i, j \in 1..Len(vs) : vs[i] = vs[j] => i = j

(***************************************************************************)
(* the_collective/src/memory/mod.rs: TheMemory.  store reads the clock     *)
(* before it waits for the write lock; everything after the lock is taken  *)
(* is one atomic action, as are retrieve, contains, the_flush, statistics. *)
(***************************************************************************)
Keys == {"k1", "k2", "k3"}
Replies == {"reply_a", "reply_b"}

NoMemRet ==
    [op |-> "none", key |-> "", reply |-> None, flag |-> FALSE,
     removed_expired |-> FALSE,
     total_entries |-> 0, expired_entries |-> 0, active_entries |-> 0]

\* TheMemory::the_awakening
TheMemory_the_awakening(max_size_mb, ttl_seconds) ==
    /\ entries = EmptyMap
    /\ ttl = ttl_seconds
    /\ max_size = max_size_mb
    /\ pending = [t \in Tasks |-> None]
    /\ mem_ret = NoMemRet
    /\ mem_ops = 0
    /\ last_evicted = None

MemoryInit == TheMemory_the_awakening(MaxSize, MaxTtl)

MemoryFrame == UNCHANGED <<assessorVars, infiltratorVars, reportVars, archiveVars, now, eval,
                 collectiveVars, interfaceVars,
                 lockVars>>

\* a TheMemory call starts
MemCall ==
    /\ mem_ops < MaxMemOps
    /\ mem_ops' = mem_ops + 1

MemReturn(r) == mem_ret' = r

\* evict_expired that retains every entry
evict_expired_KeepsAll(es, t) == es

\* TheMemory::evict_expired: retain(|_, entry| now < entry.expires_at)
evict_expired(es, t) == [k \in {x \in DOMAIN es : t < es[x].expires_at} |-> es[k]]

\* the size check `len > max_size`
AtCapacity_Strict(len, max) == len > max

\* the size check of store: entries.len() >= self.max_size
AtCapacity(len, max) == len >= max

\* store: `let expires_at = SystemTime::now() + self.ttl`, then wait for the lock
StoreBegin(t, key, reply) ==
    /\ pending[t] = None
    /\ MemCall
    /\ pending' = [pending EXCEPT ![t] =
                     Some([key |-> key, reply |-> reply, expires_at |-> now + ttl])]
    /\ MemReturn([NoMemRet EXCEPT !.op = "store", !.key = key])
    /\ UNCHANGED <<entries, ttl, max_size, last_evicted>>
    /\ MemoryFrame

\* store under the write lock: evict the expired entries, make room by
\* removing the entry `entries.keys().next()` yields (any entry of the
\* HashMap), insert
StoreCommit(t) ==
    /\ IsSome(pending[t])
    /\ LET p == Unwrap(pending[t])
           live == evict_expired(entries, now)
           victims == IF AtCapacity(Cardinality(DOMAIN live), max_size) /\ DOMAIN live # {}
                      THEN {Some(k) : k \in DOMAIN live}
                      ELSE {None}
       IN  \E v \in victims :
              /\ entries' = MapInsert(IF IsSome(v) THEN MapRemove(live, Unwrap(v)) ELSE live,
                                      p.key,
                                      [reply |-> p.reply, expires_at |-> p.expires_at])
              /\ last_evicted' = IF IsSome(v)
                                 THEN Some([key |-> Unwrap(v),
                                            expires_at |-> live[Unwrap(v)].expires_at,
                                            by |-> p.key])
                                 ELSE None
    /\ pending' = [pending EXCEPT ![t] = None]
    /\ UNCHANGED <<ttl, max_size, mem_ret, mem_ops>>
    /\ MemoryFrame

\* TheMemory::retrieve
Retrieve(key) ==
    /\ MemCall
    /\ IF key \in DOMAIN entries
       THEN IF now < entries[key].expires_at
            THEN /\ MemReturn([NoMemRet EXCEPT !.op = "retrieve", !.key = key,
                                                  !.reply = Some(entries[key].reply)])
                 /\ UNCHANGED entries
            ELSE /\ entries' = MapRemove(entries, key)
                 /\ MemReturn([NoMemRet EXCEPT !.op = "retrieve", !.key = key,
                                                  !.removed_expired = TRUE])
       ELSE /\ MemReturn([NoMemRet EXCEPT !.op = "retrieve", !.key = key])
            /\ UNCHANGED entries
    /\ UNCHANGED <<ttl, max_size, pending, last_evicted>>
    /\ MemoryFrame

\* TheMemory::contains
Contains(key) ==
    /\ MemCall
    /\ MemReturn([NoMemRet EXCEPT !.op = "contains", !.key = key,
                        !.flag = (key \in DOMAIN entries /\ now < entries[key].expires_at)])
    /\ UNCHANGED <<entries, ttl, max_size, pending, last_evicted>>
    /\ MemoryFrame

\* TheMemory::the_flush
TheFlush ==
    /\ MemCall
    /\ entries' = EmptyMap
    /\ MemReturn([NoMemRet EXCEPT !.op = "the_flush"])
    /\ UNCHANGED <<ttl, max_size, pending, last_evicted>>
    /\ MemoryFrame

\* TheMemory::statistics
Statistics ==
    LET total == Cardinality(DOMAIN entries)
        expired == Cardinality({k \in DOMAIN entries : now >= entries[k].expires_at})
    IN  /\ MemCall
        /\ MemReturn([NoMemRet EXCEPT !.op = "statistics", !.total_entries = total,
                            !.expired_entries = expired,
                            !.active_entries = total - expired])
        /\ UNCHANGED <<entries, ttl, max_size, pending, last_evicted>>
        /\ MemoryFrame

MemoryNext ==
    \/ Tick
    \/ \E t \in Tasks, key \in Keys, reply \in Replies : StoreBegin(t, key, reply)
    \/ \E t \in Tasks : StoreCommit(t)
    \/ \E key \in Keys : Retrieve(key)
    \/ \E key \in Keys : Contains(key)
    \/ TheFlush
    \/ Statistics

(***************************************************************************)
(* Claims about TheMemory                                                  *)
(***************************************************************************)
\* the step is a call of `op`
MemStep(op) ==
    /\ mem_ops' = mem_ops + 1
    /\ mem_ret'.op = op

\* the step is the locked part of a store of task t
StoreCommitStep(t) == IsSome(pending[t]) /\ pending'[t] = None

\* C8: an expired reply is never served.  A stored entry expires at its
\* store time plus ttl; retrieve(key) returns the stored reply exactly when
\* the key has an entry and the current time is before its expires_at, and
\* otherwise returns None and leaves no entry under the key; after a store
\* no expired entry remains among the entries stored earlier.
C8_NeverServesExpired ==
    [][\A t \in Tasks :
         /\ (MemStep("store") /\ pending'[t] # pending[t])
            => Unwrap(pending'[t]).expires_at = now + ttl
         /\ MemStep("retrieve") =>
              LET key == mem_ret'.key
              IN  IF key \in DOMAIN entries /\ now < entries[key].expires_at
                  THEN /\ mem_ret'.reply = Some(entries[key].reply)
                       /\ entries' = entries
                  ELSE /\ mem_ret'.reply = None
                       /\ key \notin DOMAIN entries'
                       /\ \A k \in DOMAIN entries \ {key} :
                             k \in DOMAIN entries' /\ entries'[k] = entries[k]
         /\ StoreCommitStep(t) =>
              \A k \in DOMAIN entries' \ {Unwrap(pending[t]).key} :
                  /\ k \in DOMAIN entries
                  /\ entries'[k] = entries[k]
                  /\ now < entries'[k].expires_at
      ]_vars

\* retrieve found an expired entry, returned None and removed it
C8_Witness ==
    /\ mem_ret.op = "retrieve"
    /\ mem_ret.removed_expired
    /\ mem_ret.reply = None
    /\ mem_ret.key \notin DOMAIN entries
    /\ ttl >= 1

ItemOfOption(o) == IF IsSome(o) THEN <<"item", Unwrap(o)>> ELSE <<"null">>
OptionOfItem(i) == IF i[1] = "null" THEN None ELSE Some(i[2])
ItemOf(x) == <<"item", x>>
ValueOfItem(i) == i[2]

\* the item stored under a field name in a CBOR map
Field(data, name) == data[CHOOSE i \in 1..Len(data) : data[i][1] = name][2]
HasFields(data, names) ==
    \A name \in names : \E i \in 1..Len(data) : data[i][1] = name

\* Serialize / Deserialize of VulnerabilityScore (the fields of the model)
EncodeScore(s) ==
    << <<"cve_id", ItemOf(s.cve_id)>>,
       <<"vulnerability_name", ItemOfOption(s.vulnerability_name)>>,
       <<"cvss_v3", ItemOfOption(s.cvss_v3)>>,
       <<"kev", ItemOfOption(s.kev)>>,
       <<"epss", ItemOfOption(s.epss)>>,
       <<"ai_risk_score", ItemOfOption(s.ai_risk_score)>>,
       <<"ai_priority", ItemOfOption(s.ai_priority)>>,
       <<"ai_remediation_urgency", ItemOfOption(s.ai_remediation_urgency)>> >>

DecodeScore(data) ==
    [cve_id |-> ValueOfItem(Field(data, "cve_id")),
     vulnerability_name |-> OptionOfItem(Field(data, "vulnerability_name")),
     cvss_v3 |-> OptionOfItem(Field(data, "cvss_v3")),
     kev |-> OptionOfItem(Field(data, "kev")),
     epss |-> OptionOfItem(Field(data, "epss")),
     ai_risk_score |-> OptionOfItem(Field(data, "ai_risk_score")),
     ai_priority |-> OptionOfItem(Field(data, "ai_priority")),
     ai_remediation_urgency |-> OptionOfItem(Field(data, "ai_remediation_urgency"))]

\* Serialize / Deserialize of StoredVulnerability
EncodeStoredVulnerability(v) ==
    << <<"cve_id", ItemOf(v.cve_id)>>,
       <<"score", ItemOf(EncodeScore(v.score))>>,
       <<"cached_at", ItemOf(v.cached_at)>> >>

DecodeStoredVulnerability(data) ==
    [cve_id |-> ValueOfItem(Field(data, "cve_id")),
     score |-> DecodeScore(ValueOfItem(Field(data, "score"))),
     cached_at |-> ValueOfItem(Field(data, "cached_at"))]

\* ScanMetadata::new
NewScanMetadata(scan_id, target, t) ==
    [scan_id |-> scan_id, target |-> target, started_at |-> t, ended_at |-> None,
     status |-> "running", total_vulnerabilities |-> 0,
     critical |-> 0, high |-> 0, medium |-> 0, low |-> 0]

\* Serialize / Deserialize of ScanMetadata
EncodeScanMetadata(m) ==
    << <<"scan_id", ItemOf(m.scan_id)>>,
       <<"target", ItemOf(m.target)>>,
       <<"started_at", ItemOf(m.started_at)>>,
       <<"ended_at", ItemOfOption(m.ended_at)>>,
       <<"status", ItemOf(m.status)>>,
       <<"total_vulnerabilities", ItemOf(m.total_vulnerabilities)>>,
       <<"critical", ItemOf(m.critical)>>,
       <<"high", ItemOf(m.high)>>,
       <<"medium", ItemOf(m.medium)>>,
       <<"low", ItemOf(m.low)>> >>

DecodeScanMetadata(data) ==
    [scan_id |-> ValueOfItem(Field(data, "scan_id")),
     target |-> ValueOfItem(Field(data, "target")),
     started_at |-> ValueOfItem(Field(data, "started_at")),
     ended_at |-> OptionOfItem(Field(data, "ended_at")),
     status |-> ValueOfItem(Field(data, "status")),
     total_vulnerabilities |-> ValueOfItem(Field(data, "total_vulnerabilities")),
     critical |-> ValueOfItem(Field(data, "critical")),
     high |-> ValueOfItem(Field(data, "high")),
     medium |-> ValueOfItem(Field(data, "medium")),
     low |-> ValueOfItem(Field(data, "low"))]

\* an insert that keeps the value already stored under the key
TableInsert_KeepsFirst(table, key, data) ==
    IF key \in DOMAIN table THEN table ELSE MapInsert(table, key, data)

\* table.insert(key, data) of a committed write transaction
TableInsert(table, key, data) == MapInsert(table, key, data)

\* table.get(key)
TableGet(table, key) == IF key \in DOMAIN table THEN Some(table[key]) ELSE None

ArchiveScanIds == {"scan_123", "scan_456"}

\* the scores a caller stores: fresh ones and fully enriched ones
ArchiveScores ==
    {NewVulnerabilityScore(c) : c \in CveIds}
    \cup {ai_enhance_score(fetch_epss_data(fetch_kev_data(
              fetch_nvd_data(NewVulnerabilityScore(c))))) : c \in CveIds}

\* the metadata a caller stores: of a running scan and of a completed one
ArchiveMetadata ==
    {NewScanMetadata(id, "192.168.1.0/24", 0) : id \in ArchiveScanIds}
    \cup {[NewScanMetadata(id, "192.168.1.0/24", 0) EXCEPT
             !.ended_at = Some(1), !.status = "completed",
             !.total_vulnerabilities = 2, !.critical = 1, !.low = 1] :
          id \in ArchiveScanIds}

NoArchRet ==
    [op |-> "none", key |-> "", ok |-> TRUE, err |-> "",
     vulnerability |-> None, metadata |-> None, scan |-> << >>, results |-> << >>]

ArchOk(op, key) == [NoArchRet EXCEPT !.op = op, !.key = key]
ArchErr(op, key, e) == [NoArchRet EXCEPT !.op = op, !.key = key, !.ok = FALSE, !.err = e]

\* TheArchive::the_awakening: the tables are created empty
ArchiveInit ==
    /\ scans_table = EmptyMap
    /\ vulns_table = EmptyMap
    /\ results_table = EmptyMap
    /\ arch_last = [scans |-> EmptyMap, vulnerabilities |-> EmptyMap, replaced |-> {},
                    results |-> << >>]
    /\ arch_ret = NoArchRet
    /\ arch_ops = 0

ArchiveFrame == UNCHANGED <<assessorVars, infiltratorVars, reportVars, memoryVars, now, eval,
                 collectiveVars, interfaceVars,
                 lockVars>>

ArchCall ==
    /\ arch_ops < MaxArchiveOps
    /\ arch_ops' = arch_ops + 1

\* store_scan_metadata; when the storage engine fails (io_ok false) the
\* transaction is not committed
StoreScanMetadata(metadata, io_ok) ==
    /\ ArchCall
    /\ IF io_ok
       THEN /\ scans_table' = TableInsert(scans_table, metadata.scan_id,
                                          EncodeScanMetadata(metadata))
            /\ arch_last' = [arch_last EXCEPT
                               !.scans = MapInsert(@, metadata.scan_id, metadata),
                               !.replaced = IF /\ metadata.scan_id \in DOMAIN arch_last.scans
                                               /\ arch_last.scans[metadata.scan_id] # metadata
                                            THEN @ \cup {metadata.scan_id} ELSE @]
            /\ arch_ret' = ArchOk("store_scan_metadata", metadata.scan_id)
       ELSE /\ arch_ret' = ArchErr("store_scan_metadata", metadata.scan_id, "ArchiveError")
            /\ UNCHANGED <<scans_table, arch_last>>
    /\ UNCHANGED <<vulns_table, results_table>>
    /\ ArchiveFrame

\* get_scan_metadata
GetScanMetadata(scan_id, io_ok) ==
    /\ ArchCall
    /\ LET result == TableGet(scans_table, scan_id)
       IN  arch_ret' =
             IF ~io_ok THEN ArchErr("get_scan_metadata", scan_id, "ArchiveError")
             ELSE IF result = None THEN ArchOk("get_scan_metadata", scan_id)
             ELSE IF ~HasFields(Unwrap(result),
                                {"scan_id", "target", "started_at", "ended_at", "status",
                                 "total_vulnerabilities", "critical", "high", "medium",
                                 "low"})
             THEN ArchErr("get_scan_metadata", scan_id, "deserialize")
             ELSE [ArchOk("get_scan_metadata", scan_id) EXCEPT
                     !.metadata = Some(DecodeScanMetadata(Unwrap(result)))]
    /\ UNCHANGED <<scans_table, vulns_table, results_table, arch_last>>
    /\ ArchiveFrame

\* store_vulnerability: cached_at is the time of the call
StoreVulnerability(s, io_ok) ==
    /\ ArchCall
    /\ IF io_ok
       THEN /\ vulns_table' =
                 TableInsert(vulns_table, s.cve_id,
                             EncodeStoredVulnerability(
                                 [cve_id |-> s.cve_id, score |-> s, cached_at |-> now]))
            /\ arch_last' = [arch_last EXCEPT
                               !.vulnerabilities = MapInsert(@, s.cve_id, s),
                               !.replaced = IF /\ s.cve_id \in DOMAIN arch_last.vulnerabilities
                                               /\ arch_last.vulnerabilities[s.cve_id] # s
                                            THEN @ \cup {s.cve_id} ELSE @]
            /\ arch_ret' = ArchOk("store_vulnerability", s.cve_id)
       ELSE /\ arch_ret' = ArchErr("store_vulnerability", s.cve_id, "ArchiveError")
            /\ UNCHANGED <<vulns_table, arch_last>>
    /\ UNCHANGED <<scans_table, results_table>>
    /\ ArchiveFrame

\* get_vulnerability
GetVulnerability(cve_id, io_ok) ==
    /\ ArchCall
    /\ LET result == TableGet(vulns_table, cve_id)
       IN  arch_ret' =
             IF ~io_ok THEN ArchErr("get_vulnerability", cve_id, "ArchiveError")
             ELSE IF result = None THEN ArchOk("get_vulnerability", cve_id)
             ELSE IF ~HasFields(Unwrap(result), {"cve_id", "score", "cached_at"})
             THEN ArchErr("get_vulnerability", cve_id, "deserialize")
             ELSE [ArchOk("get_vulnerability", cve_id) EXCEPT
                     !.vulnerability = Some(DecodeStoredVulnerability(Unwrap(result)))]
    /\ UNCHANGED <<scans_table, vulns_table, results_table, arch_last>>
    /\ ArchiveFrame

ArchiveNext ==
    \/ Tick
    \/ \E metadata \in ArchiveMetadata, io_ok \in BOOLEAN : StoreScanMetadata(metadata, io_ok)
    \/ \E scan_id \in ArchiveScanIds, io_ok \in BOOLEAN : GetScanMetadata(scan_id, io_ok)
    \/ \E s \in ArchiveScores, io_ok \in BOOLEAN : StoreVulnerability(s, io_ok)
    \/ \E cve_id \in CveIds, io_ok \in BOOLEAN : GetVulnerability(cve_id, io_ok)

(***************************************************************************)
(* the_archive/src/lib.rs: the scan_results table.  The strings that make  *)
(* up its keys are sequences of characters, so that format! and            *)
(* starts_with are computed on them.                                       *)
(***************************************************************************)
\* the byte of each character that occurs in the keys
Byte == [ch \in {":", "0", "1", "4", "8", "c", "h", "s"} |->
            CASE ch = "0" -> 48 [] ch = "1" -> 49 [] ch = "4" -> 52 [] ch = "8" -> 56
              [] ch = ":" -> 58 [] ch = "c" -> 99 [] ch = "h" -> 104 [] ch = "s" -> 115]

\* str::cmp: the byte-wise lexicographic order in which the table keeps its keys
RECURSIVE StrLess(_, _)
StrLess(a, b) ==
    IF a = << >> THEN b # << >>
    ELSE IF b = << >> THEN FALSE
    ELSE IF Head(a) # Head(b) THEN Byte[Head(a)] < Byte[Head(b)]
    ELSE StrLess(Tail(a), Tail(b))

\* u16 Display: the decimal digits
DigitChar == <<"0", "1", "2", "3", "4", "5", "6", "7", "8", "9">>
RECURSIVE FormatU16(_)
FormatU16(n) ==
    IF n < 10 THEN <<DigitChar[n + 1]>>
    ELSE FormatU16(n \div 10) \o <<DigitChar[(n % 10) + 1]>>

\* format!("{}:{}:{}:{}", scan_id, result.cve_id, result.host, result.port)
ScanResultKey(scan_id, r) ==
    scan_id \o <<":">> \o r.cve_id \o <<":">> \o r.host \o <<":">> \o FormatU16(r.port)

\* format!("{}:", scan_id)
ScanPrefix(scan_id) == scan_id \o <<":">>

\* str::starts_with
starts_with(str, prefix) ==
    /\ Len(prefix) <= Len(str)
    /\ SubSeq(str, 1, Len(prefix)) = prefix

\* Serialize / Deserialize of StoredScanResult
EncodeStoredScanResult(st) ==
    << <<"scan_id", ItemOf(st.scan_id)>>,
       <<"result", ItemOf(<< <<"cve_id", ItemOf(st.result.cve_id)>>,
                             <<"host", ItemOf(st.result.host)>>,
                             <<"port", ItemOf(st.result.port)>>,
                             <<"vulnerability_score",
                               ItemOfOption(st.result.vulnerability_score)>>,
                             <<"remediation_guidance",
                               ItemOfOption(st.result.remediation_guidance)>> >>)>> >>

DecodeStoredScanResult(data) ==
    LET r == ValueOfItem(Field(data, "result"))
    IN  [scan_id |-> ValueOfItem(Field(data, "scan_id")),
         result |-> [cve_id |-> ValueOfItem(Field(r, "cve_id")),
                     host |-> ValueOfItem(Field(r, "host")),
                     port |-> ValueOfItem(Field(r, "port")),
                     vulnerability_score |-> OptionOfItem(Field(r, "vulnerability_score")),
                     remediation_guidance |->
                         OptionOfItem(Field(r, "remediation_guidance"))]]

\* the keys of a table in the order table.iter() yields them
RECURSIVE KeysInOrder(_)
KeysInOrder(keys) ==
    IF keys = {} THEN << >>
    ELSE LET first == CHOOSE k \in keys : \A o \in keys \ {k} : StrLess(k, o)
         IN  <<first>> \o KeysInOrder(keys \ {first})

\* the loop of get_scan_results over the entries of the table
RECURSIVE CollectResults(_, _, _)
CollectResults(table, order, prefix) ==
    IF order = << >> THEN << >>
    ELSE (IF starts_with(Head(order), prefix)
          THEN <<DecodeStoredScanResult(table[Head(order)]).result>>
          ELSE << >>)
         \o CollectResults(table, Tail(order), prefix)

\* scan ids and cve ids, with and without ':' inside
ResultScanIds == {<<"s">>, <<"s", ":", "1">>}
ResultCveIds == {<<"c">>, <<"1", ":", "c">>}

\* the results a caller stores: a detection and its enhanced repetition
StoredResultInputs ==
    {[NewScanResult(c, <<"h">>, 80) EXCEPT !.remediation_guidance = g] :
        c \in ResultCveIds, g \in {None, Some("guidance")}}

\* store_scan_result
StoreScanResult(scan_id, result, io_ok) ==
    /\ ArchCall
    /\ IF io_ok
       THEN /\ results_table' =
                 TableInsert(results_table, ScanResultKey(scan_id, result),
                             EncodeStoredScanResult([scan_id |-> scan_id,
                                                     result |-> result]))
            /\ arch_last' = [arch_last EXCEPT
                               !.results = Append(@, [scan_id |-> scan_id,
                                                      result |-> result])]
            /\ arch_ret' = [ArchOk("store_scan_result", "") EXCEPT !.scan = scan_id]
       ELSE /\ arch_ret' = [ArchErr("store_scan_result", "", "ArchiveError") EXCEPT
                              !.scan = scan_id]
            /\ UNCHANGED <<results_table, arch_last>>
    /\ UNCHANGED <<scans_table, vulns_table>>
    /\ ArchiveFrame

\* get_scan_results
GetScanResults(scan_id, io_ok) ==
    /\ ArchCall
    /\ arch_ret' =
         IF ~io_ok
         THEN [ArchErr("get_scan_results", "", "ArchiveError") EXCEPT !.scan = scan_id]
         ELSE [ArchOk("get_scan_results", "") EXCEPT
                 !.scan = scan_id,
                 !.results = CollectResults(results_table,
                                            KeysInOrder(DOMAIN results_table),
                                            ScanPrefix(scan_id))]
    /\ UNCHANGED <<scans_table, vulns_table, results_table, arch_last>>
    /\ ArchiveFrame

ScanResultsNext ==
    \/ \E scan_id \in ResultScanIds, result \in StoredResultInputs, io_ok \in BOOLEAN :
           StoreScanResult(scan_id, result, io_ok)
    \/ \E scan_id \in ResultScanIds, io_ok \in BOOLEAN : GetScanResults(scan_id, io_ok)

(***************************************************************************)
(* Claims about TheArchive                                                 *)
(***************************************************************************)
\* C10: when the storage engine does not fail, get_vulnerability(cve_id)
\* and get_scan_metadata(scan_id) return Ok(Some(record)) whose score /
\* metadata equals in every field the value of the last successful store
\* under that key, and Ok(None) for a key no store succeeded for.
C10_ArchiveRoundTrip ==
    /\ (arch_ret.op = "get_vulnerability" /\ arch_ret.err # "ArchiveError")
       => /\ arch_ret.ok
          /\ arch_ret.vulnerability =
               IF arch_ret.key \in DOMAIN arch_last.vulnerabilities
               THEN Some([cve_id |-> arch_ret.key,
                          score |-> arch_last.vulnerabilities[arch_ret.key],
                          cached_at |-> Unwrap(arch_ret.vulnerability).cached_at])
               ELSE None
    /\ (arch_ret.op = "get_scan_metadata" /\ arch_ret.err # "ArchiveError")
       => /\ arch_ret.ok
          /\ arch_ret.metadata =
               IF arch_ret.key \in DOMAIN arch_last.scans
               THEN Some(arch_last.scans[arch_ret.key])
               ELSE None

\* a later store replaced a score and get_vulnerability returned the later one
C10_Witness ==
    /\ arch_ret.key \in arch_last.replaced
    /\ arch_ret.op = "get_vulnerability"
    /\ arch_ret.ok
    /\ IsSome(arch_ret.vulnerability)
    /\ IsSome(Unwrap(arch_ret.vulnerability).score.cvss_v3)
    /\ Unwrap(arch_ret.vulnerability).cached_at >= 1

\* the results stored under scan_id by the successful store_scan_result calls
RECURSIVE StoredUnder(_, _)
StoredUnder(log, scan_id) ==
    IF log = << >> THEN EmptyBag
    ELSE (IF Head(log).scan_id = scan_id THEN SetToBag({Head(log).result}) ELSE EmptyBag)
         (+) StoredUnder(Tail(log), scan_id)

RECURSIVE BagOfSeq(_)
BagOfSeq(q) == IF q = << >> THEN EmptyBag ELSE SetToBag({Head(q)}) (+) BagOfSeq(Tail(q))

\* C11: get_scan_results(scan_id) returns all and only the results stored
\* with store_scan_result under that scan id.
C11_AllAndOnlyResultsOfScan ==
    (arch_ret.op = "get_scan_results" /\ arch_ret.ok)
    => BagOfSeq(arch_ret.results) = StoredUnder(arch_last.results, arch_ret.scan)

(***************************************************************************)
(* the_archive_query/src/lib.rs: QueryFilters.  The severity filter is     *)
(* matched on strings, which are sequences of characters here.             *)
(***************************************************************************)
NoEval == [fn |-> "none", arg |-> << >>, result |-> << >>]

EvalFrame ==
    UNCHANGED <<assessorVars, infiltratorVars, reportVars, memoryVars, archiveVars, now,
                collectiveVars, interfaceVars,
                 lockVars>>

\* no function has been applied yet
Fresh == eval.fn = "none"

\* the function `fn` is applied to `arg`
Apply(fn, arg, result) ==
    /\ eval' = [fn |-> fn, arg |-> arg, result |-> result]
    /\ EvalFrame

\* CvssSeverity::as_str
as_str(sev) ==
    CASE sev = "None" -> <<"N", "o", "n", "e">>
      [] sev = "Low" -> <<"L", "o", "w">>
      [] sev = "Medium" -> <<"M", "e", "d", "i", "u", "m">>
      [] sev = "High" -> <<"H", "i", "g", "h">>
      [] sev = "Critical" -> <<"C", "r", "i", "t", "i", "c", "a", "l">>

UpperCase == <<"A", "B", "C", "D", "E", "F", "G", "H", "I", "J", "K", "L", "M",
               "N", "O", "P", "Q", "R", "S", "T", "U", "V", "W", "X", "Y", "Z">>
LowerCase == <<"a", "b", "c", "d", "e", "f", "g", "h", "i", "j", "k", "l", "m",
               "n", "o", "p", "q", "r", "s", "t", "u", "v", "w", "x", "y", "z">>

\* a to_lowercase that leaves the string as it is
to_lowercase_Unchanged(str) == str

\* str::to_lowercase
to_lowercase(str) ==
    [i \in 1..Len(str) |->
        IF \E j \in 1..Len(UpperCase) : UpperCase[j] = str[i]
        THEN LowerCase[CHOOSE j \in 1..Len(UpperCase) : UpperCase[j] = str[i]]
        ELSE str[i]]

\* str::contains
RECURSIVE contains(_, _)
contains(str, pat) ==
    IF Len(pat) > Len(str) THEN FALSE
    ELSE starts_with(str, pat) \/ contains(Tail(str), pat)

\* QueryFilters::new (Default)
NewQueryFilters ==
    [severity |-> None, is_kev |-> None, min_cvss |-> None, max_cvss |-> None,
     cached_after |-> None, cached_before |-> None, sort_by |-> None,
     sort_order |-> None, limit |-> None, offset |-> None]

\* QueryFilters::matches
matches(f, vuln) ==
    IF IsSome(f.severity)
       /\ ~contains(to_lowercase(as_str(severity(vuln.score))),
                    to_lowercase(Unwrap(f.severity)))
    THEN FALSE
    ELSE IF IsSome(f.is_kev) /\ is_kev(vuln.score) # Unwrap(f.is_kev)
    THEN FALSE
    ELSE IF IsSome(f.min_cvss) /\ cvss_base_score(vuln.score) < Unwrap(f.min_cvss)
    THEN FALSE
    ELSE IF IsSome(f.max_cvss) /\ cvss_base_score(vuln.score) > Unwrap(f.max_cvss)
    THEN FALSE
    ELSE IF IsSome(f.cached_after) /\ vuln.cached_at < Unwrap(f.cached_after)
    THEN FALSE
    ELSE IF IsSome(f.cached_before) /\ vuln.cached_at > Unwrap(f.cached_before)
    THEN FALSE
    ELSE TRUE

\* the filters and stored vulnerabilities matches is applied to
SeverityFilterInputs ==
    {None, Some(<<"c", "r", "i", "t", "i", "c", "a", "l">>), Some(<<"C", "R", "I", "T">>),
     Some(<<"i">>), Some(<< >>), Some(<<"L", "o", "w">>), Some(<<"x">>)}

FilterInputs ==
    {[NewQueryFilters EXCEPT !.severity = sv, !.is_kev = k, !.min_cvss = lo,
                             !.max_cvss = hi, !.cached_after = ca, !.cached_before = cb] :
        sv \in SeverityFilterInputs,
        k \in {None, Some(TRUE), Some(FALSE)},
        lo \in {None, Some(5300), Some(7500)},
        hi \in {None, Some(7500), Some(10000)},
        ca \in {None, Some(1)},
        cb \in {None, Some(1)}}

StoredVulnerabilityInputs ==
    {[cve_id |-> sc.cve_id, score |-> sc, cached_at |-> t] :
        sc \in ScoreInputs, t \in 0..MaxTime}

FilterMatches ==
    /\ Fresh
    /\ \E f \in FilterInputs, vuln \in StoredVulnerabilityInputs :
           Apply("matches", [filters |-> f, vuln |-> vuln], matches(f, vuln))

MatchesNext == FilterMatches

(***************************************************************************)
(* Claims about QueryFilters                                               *)
(***************************************************************************)
\* the two characters are the same letter, whatever their case
SameLetter(a, b) ==
    \/ a = b
    \/ \E j \in 1..Len(UpperCase) : {a, b} = {UpperCase[j], LowerCase[j]}

\* pat occurs in str at some position, case-insensitively
OccursIn(pat, str) ==
    \E k \in 0..(Len(str) - Len(pat)) :
        \A i \in 1..Len(pat) : SameLetter(pat[i], str[k + i])

\* C12: a stored vulnerability matches iff it satisfies every filter field
\* that is Some: the severity filter occurs case-insensitively in the name
\* of its severity, its KEV flag equals is_kev, min_cvss <= score <=
\* max_cvss and cached_after <= cached_at <= cached_before; with no field
\* set every record matches.
C12_MatchesIsConjunction ==
    eval.fn = "matches" =>
        LET f == eval.arg.filters
            v == eval.arg.vuln
            sev == IF IsSome(v.score.cvss_v3) THEN Unwrap(v.score.cvss_v3).severity
                   ELSE "None"
            base == IF IsSome(v.score.cvss_v3) THEN Unwrap(v.score.cvss_v3).base_score
                    ELSE 0
            kev == IsSome(v.score.kev) /\ Unwrap(v.score.kev).is_kev
        IN  /\ eval.result <=>
                 /\ IsSome(f.severity) => OccursIn(Unwrap(f.severity), as_str(sev))
                 /\ IsSome(f.is_kev) => (kev <=> Unwrap(f.is_kev))
                 /\ IsSome(f.min_cvss) => Unwrap(f.min_cvss) <= base
                 /\ IsSome(f.max_cvss) => base <= Unwrap(f.max_cvss)
                 /\ IsSome(f.cached_after) => Unwrap(f.cached_after) <= v.cached_at
                 /\ IsSome(f.cached_before) => v.cached_at <= Unwrap(f.cached_before)
            /\ f = NewQueryFilters => eval.result

\* a record that passes all six fields, the severity one in another case
C12_Witness ==
    /\ eval.fn = "matches"
    /\ eval.result
    /\ eval.arg.filters.severity = Some(<<"C", "R", "I", "T">>)
    /\ eval.arg.filters.is_kev = Some(TRUE)
    /\ IsSome(eval.arg.filters.min_cvss)
    /\ IsSome(eval.arg.filters.max_cvss)
    /\ IsSome(eval.arg.filters.cached_after)
    /\ IsSome(eval.arg.filters.cached_before)

(***************************************************************************)
(* the_archive_query/src/lib.rs: ArchiveQuery::query_vulnerabilities.      *)
(* TheArchive::list_vulnerabilities hands it the stored vulnerabilities as *)
(* one snapshot, in an order the query does not rely on.                   *)
(***************************************************************************)
\* the cve ids of the snapshot, in str order
QueryCveIds == <<"CVE-2021-44228", "CVE-2023-1111", "CVE-2024-0001">>

\* str::cmp on cve ids, CvssSeverity::cmp, f64::partial_cmp, DateTime::cmp
CveRank(cve_id) == CHOOSE i \in 1..Len(QueryCveIds) : QueryCveIds[i] = cve_id
SeverityRank(sev) ==
    CASE sev = "None" -> 0 [] sev = "Low" -> 1 [] sev = "Medium" -> 2
      [] sev = "High" -> 3 [] sev = "Critical" -> 4
Cmp(x, y) == IF x < y THEN -1 ELSE IF x > y THEN 1 ELSE 0

\* the comparator closure of results.sort_by
SortCmp(sort_by, order, a, b) ==
    LET cmp == CASE sort_by = "CveId" -> Cmp(CveRank(a.cve_id), CveRank(b.cve_id))
                 [] sort_by = "Severity" ->
                        Cmp(SeverityRank(severity(a.score)), SeverityRank(severity(b.score)))
                 [] sort_by = "CvssScore" ->
                        Cmp(cvss_base_score(a.score), cvss_base_score(b.score))
                 [] sort_by = "CachedAt" -> Cmp(a.cached_at, b.cached_at)
    IN  IF order = "Ascending" THEN cmp ELSE 0 - cmp

\* slice::sort_by, a stable sort: x goes after the elements not greater than it
RECURSIVE InsertSorted(_, _, _, _)
InsertSorted(sorted, x, sort_by, order) ==
    IF sorted = << >> THEN <<x>>
    ELSE IF SortCmp(sort_by, order, Head(sorted), x) <= 0
    THEN <<Head(sorted)>> \o InsertSorted(Tail(sorted), x, sort_by, order)
    ELSE <<x>> \o sorted

RECURSIVE SortBy(_, _, _)
SortBy(results, sort_by, order) ==
    IF results = << >> THEN << >>
    ELSE InsertSorted(SortBy(SubSeq(results, 1, Len(results) - 1), sort_by, order),
                      results[Len(results)], sort_by, order)

\* .into_iter().filter(|v| filters.matches(v)).collect()
RECURSIVE FilterMatching(_, _)
FilterMatching(all_vulns, f) ==
    IF all_vulns = << >> THEN << >>
    ELSE (IF matches(f, Head(all_vulns)) THEN <<Head(all_vulns)>> ELSE << >>)
         \o FilterMatching(Tail(all_vulns), f)

\* Iterator::skip and Iterator::take
Skip(q, n) == SubSeq(q, n + 1, Len(q))
Take(q, n) == SubSeq(q, 1, Min(n, Len(q)))

\* a pagination that takes the limit before it skips the offset
Paginate_TakeFirst(results, f) ==
    LET offset == IF IsSome(f.offset) THEN Unwrap(f.offset) ELSE 0
    IN  Skip(IF IsSome(f.limit) THEN Take(results, Unwrap(f.limit)) ELSE results, offset)

\* "Apply pagination": skip(offset).take(limit), an absent limit being
\* usize::MAX, more than any length
Paginate(results, f) ==
    LET offset == IF IsSome(f.offset) THEN Unwrap(f.offset) ELSE 0
        skipped == Skip(results, offset)
    IN  IF IsSome(f.limit) THEN Take(skipped, Unwrap(f.limit)) ELSE skipped

\* query_vulnerabilities on the snapshot all_vulns
query_vulnerabilities(all_vulns, f) ==
    LET filtered == FilterMatching(all_vulns, f)
        sorted == IF IsSome(f.sort_by)
                  THEN SortBy(filtered, Unwrap(f.sort_by),
                              IF IsSome(f.sort_order) THEN Unwrap(f.sort_order)
                              ELSE "Descending")
                  ELSE filtered
    IN  Paginate(sorted, f)

\* the stored vulnerabilities of the snapshots: two of one severity, two
\* cached at the same time
SnapshotRecords ==
    LET rec(c, sv, k, t) ==
            [cve_id |-> c,
             score |-> [NewVulnerabilityScore(c) EXCEPT
                          !.cvss_v3 = Some([base_score |-> sv[2], severity |-> sv[1]]),
                          !.kev = k],
             cached_at |-> t]
    IN  {rec("CVE-2021-44228", <<"Critical", 10000>>, Some([is_kev |-> TRUE]), 1),
         rec("CVE-2023-1111", <<"High", 7500>>, None, 0),
         rec("CVE-2024-0001", <<"High", 8100>>, Some([is_kev |-> FALSE]), 1)}

\* list_vulnerabilities: the stored vulnerabilities, one per cve id
Snapshots ==
    {q \in UNION {[1..n -> SnapshotRecords] : n \in 0..MaxVulns} :
        \A i, j \in 1..Len(q) : i # j => q[i].cve_id # q[j].cve_id}

PageFilterInputs ==
    {[NewQueryFilters EXCEPT !.is_kev = k, !.sort_by = sb, !.sort_order = so,
                             !.offset = off, !.limit = lim] :
        k \in {None, Some(FALSE)},
        sb \in {None, Some("CveId"), Some("Severity"), Some("CvssScore"), Some("CachedAt")},
        so \in {None, Some("Ascending"), Some("Descending")},
        off \in {None} \cup {Some(n) : n \in 0..(MaxVulns + 1)},
        lim \in {None} \cup {Some(n) : n \in 0..(MaxVulns + 1)}}

QueryVulnerabilities ==
    /\ Fresh
    /\ \E all_vulns \in Snapshots, f \in PageFilterInputs :
           Apply("query_vulnerabilities", [filters |-> f, all_vulns |-> all_vulns],
                 query_vulnerabilities(all_vulns, f))

QueryNext == QueryVulnerabilities

\* C13: query_vulnerabilities with offset k and limit n returns exactly the
\* elements at positions [k, k+n) of the result of the same query without
\* pagination; an offset beyond the end gives an empty result and an absent
\* limit everything from k on (an absent offset is 0).
C13_PaginationIsSlice ==
    eval.fn = "query_vulnerabilities" =>
        LET f == eval.arg.filters
            full == query_vulnerabilities(eval.arg.all_vulns,
                                          [f EXCEPT !.offset = None, !.limit = None])
            k == IF IsSome(f.offset) THEN Unwrap(f.offset) ELSE 0
            rest == IF Len(full) > k THEN Len(full) - k ELSE 0
            n == IF IsSome(f.limit) /\ Unwrap(f.limit) < rest THEN Unwrap(f.limit) ELSE rest
        IN  /\ Len(eval.result) = n
            /\ \A i \in 1..n : eval.result[i] = full[k + i]
            /\ k >= Len(full) => eval.result = << >>

\* the second and third of three records after a sort that reorders them
C13_Witness ==
    /\ eval.fn = "query_vulnerabilities"
    /\ Len(eval.arg.all_vulns) = 3
    /\ eval.arg.filters.offset = Some(1)
    /\ eval.arg.filters.limit = Some(2)
    /\ eval.arg.filters.sort_by = Some("CvssScore")
    /\ Len(eval.result) = 2
    /\ eval.result[1] = eval.arg.all_vulns[1]
    /\ eval.result[2] = eval.arg.all_vulns[3]

(***************************************************************************)
(* the_assessor/src/types.rs: composite_risk_score.  Its result, a number  *)
(* between 0.0 and 1.0, is kept in millionths: with CVSS scores of one     *)
(* decimal and EPSS and AI scores in thousandths every step is exact.      *)
(***************************************************************************)
Max(a, b) == IF a > b THEN a ELSE b

\* composite_risk_score without the final clamp
composite_risk_score_Unclamped(s) ==
    LET normalized == cvss_base_score(s) * 100
        with_epss == IF IsSome(s.epss)
                     THEN (normalized * 6 + Unwrap(s.epss).score * 1000 * 4) \div 10
                     ELSE normalized
        with_kev == IF is_kev(s) THEN (with_epss * 15) \div 10 ELSE with_epss
    IN  IF IsSome(s.ai_risk_score)
        THEN (with_kev * 7 + Unwrap(s.ai_risk_score) * 100 * 3) \div 10
        ELSE with_kev

\* composite_risk_score with the AI blend before the KEV multiplier
composite_risk_score_AiFirst(s) ==
    LET normalized == cvss_base_score(s) * 100
        with_epss == IF IsSome(s.epss)
                     THEN (normalized * 6 + Unwrap(s.epss).score * 1000 * 4) \div 10
                     ELSE normalized
        with_ai == IF IsSome(s.ai_risk_score)
                   THEN (with_epss * 7 + Unwrap(s.ai_risk_score) * 100 * 3) \div 10
                   ELSE with_epss
        with_kev == IF is_kev(s) THEN (with_ai * 15) \div 10 ELSE with_ai
    IN  Max(Min(with_kev, 1000000), 0)

\* VulnerabilityScore::composite_risk_score
composite_risk_score(s) ==
    LET normalized == cvss_base_score(s) * 100
        with_epss == IF IsSome(s.epss)
                     THEN (normalized * 6 + Unwrap(s.epss).score * 1000 * 4) \div 10
                     ELSE normalized
        with_kev == IF is_kev(s) THEN (with_epss * 15) \div 10 ELSE with_epss
        with_ai == IF IsSome(s.ai_risk_score)
                   THEN (with_kev * 7 + Unwrap(s.ai_risk_score) * 100 * 3) \div 10
                   ELSE with_kev
    IN  Max(Min(with_ai, 1000000), 0)

\* scores with every combination of present and absent fields
CompositeInputs ==
    {[NewVulnerabilityScore("CVE-2024-0001") EXCEPT
        !.cvss_v3 = cv, !.kev = k, !.epss = ep, !.ai_risk_score = ai] :
        cv \in {None} \cup {Some([base_score |-> sv[2], severity |-> sv[1]]) :
                               sv \in Severities \cup {<<"Critical", 10000>>}},
        k \in {None, Some([is_kev |-> TRUE]), Some([is_kev |-> FALSE])},
        ep \in {None} \cup {Some([score |-> e]) : e \in {0, 500, 975, 1000}},
        ai \in {None} \cup {Some(a) : a \in {0, 4000, 9750, 10000}}}

CompositeRiskScore ==
    /\ Fresh
    /\ \E s \in CompositeInputs : Apply("composite_risk_score", s, composite_risk_score(s))

CompositeNext == CompositeRiskScore

\* C14: composite_risk_score is in [0.0, 1.0] whatever fields are present;
\* a KEV score of CVSS 10 with EPSS 1.0 gives 1.0 and an empty score 0.0.
C14_CompositeInUnitRange ==
    eval.fn = "composite_risk_score" =>
        /\ 0 <= eval.result /\ eval.result <= 1000000
        /\ (/\ IsSome(eval.arg.cvss_v3) /\ Unwrap(eval.arg.cvss_v3).base_score = 10000
            /\ IsSome(eval.arg.kev) /\ Unwrap(eval.arg.kev).is_kev
            /\ IsSome(eval.arg.epss) /\ Unwrap(eval.arg.epss).score = 1000
            /\ eval.arg.ai_risk_score = None)
           => eval.result = 1000000
        /\ eval.arg = NewVulnerabilityScore("CVE-2024-0001") => eval.result = 0

\* the KEV score of CVSS 10 with EPSS 1.0, which is 1.5 before the clamp
C14_Witness ==
    /\ eval.fn = "composite_risk_score"
    /\ eval.result = 1000000
    /\ IsSome(eval.arg.cvss_v3) /\ Unwrap(eval.arg.cvss_v3).base_score = 10000
    /\ IsSome(eval.arg.kev) /\ Unwrap(eval.arg.kev).is_kev
    /\ IsSome(eval.arg.epss) /\ Unwrap(eval.arg.epss).score = 1000
    /\ eval.arg.ai_risk_score = None

\* the steps of the composite score, each on the millionths of the one before
BlendEpss(x, s) ==
    IF s.epss = None THEN x ELSE (6 * x + 4 * (1000 * s.epss[1].score)) \div 10
TimesKev(x, s) ==
    IF s.kev # None /\ s.kev[1].is_kev THEN (3 * x) \div 2 ELSE x
BlendAi(x, s) ==
    IF s.ai_risk_score = None THEN x ELSE (7 * x + 3 * (100 * s.ai_risk_score[1])) \div 10
Clamp01(x) == IF x > 1000000 THEN 1000000 ELSE IF x < 0 THEN 0 ELSE x
Normalized(s) == IF s.cvss_v3 = None THEN 0 ELSE 100 * s.cvss_v3[1].base_score

\* C15: the composite score is clamp(ai(kev(epss(cvss/10)))): the EPSS blend
\* 0.6/0.4, then the KEV multiplier 1.5, then the AI blend 0.7/0.3, then the
\* clamp to [0,1].
C15_CompositeStepOrder ==
    eval.fn = "composite_risk_score" =>
        eval.result = Clamp01(BlendAi(TimesKev(BlendEpss(Normalized(eval.arg), eval.arg),
                                               eval.arg), eval.arg))

\* a KEV score with an AI score for which the two orders differ
C15_Witness ==
    /\ eval.fn = "composite_risk_score"
    /\ IsSome(eval.arg.kev) /\ Unwrap(eval.arg.kev).is_kev
    /\ IsSome(eval.arg.ai_risk_score)
    /\ eval.result < 1000000
    /\ eval.result # Clamp01(TimesKev(BlendAi(BlendEpss(Normalized(eval.arg), eval.arg),
                                               eval.arg), eval.arg))

(***************************************************************************)
(* the_assessor/src/scoring.rs: ai_enhance_score on its own, on scores     *)
(* whose CVSS base, KEV and EPSS fields sit on and around its thresholds.  *)
(***************************************************************************)
AiBaseScores == {0, 3000, 3900, 4000, 5300, 6900, 7000, 7500, 8900, 9000, 9800, 10000}

AiEnhanceInputs ==
    {[NewVulnerabilityScore("CVE-2024-0001") EXCEPT !.cvss_v3 = cv, !.kev = k, !.epss = ep] :
        cv \in {None} \cup {Some([base_score |-> b, severity |-> "Unrated"]) : b \in AiBaseScores},
        k \in {None, Some([is_kev |-> TRUE]), Some([is_kev |-> FALSE])},
        ep \in {None} \cup {Some([score |-> e]) : e \in {0, 400, 500, 501, 975, 1000}}}

AiEnhanceScore ==
    /\ Fresh
    /\ \E s \in AiEnhanceInputs : Apply("ai_enhance_score", s, ai_enhance_score(s))

AiEnhanceNext == AiEnhanceScore

BaseOf(s) == IF s.cvss_v3 = None THEN 0 ELSE s.cvss_v3[1].base_score
KevOf(s) == s.kev # None /\ s.kev[1].is_kev
EpssOf(s) == IF s.epss = None THEN 0 ELSE s.epss[1].score
Cap10(x) == IF x > 10000 THEN 10000 ELSE x
AfterKev(s) == IF KevOf(s) THEN Cap10((13 * BaseOf(s)) \div 10) ELSE BaseOf(s)

\* C16: ai_risk starts from the CVSS base score (0 when absent), becomes
\* min(10, 1.3 * ai_risk) for a KEV entry, then min(10, ai_risk + 2 * epss)
\* when the EPSS score is strictly above 0.5; an EPSS score of exactly 0.5 or
\* an absent one adds nothing, and the result is in [0, 10].
C16_AiRiskFormula ==
    eval.fn = "ai_enhance_score" =>
        LET s == eval.arg
            ai_risk == eval.result.ai_risk_score[1]
        IN  /\ eval.result.ai_risk_score # None
            /\ EpssOf(s) > 500 => ai_risk = Cap10(AfterKev(s) + 2 * EpssOf(s))
            /\ EpssOf(s) <= 500 => ai_risk = AfterKev(s)
            /\ 0 <= ai_risk /\ ai_risk <= 10000

\* a KEV entry with EPSS just above 0.5: both boosts apply and neither is capped
C16_Witness ==
    /\ eval.fn = "ai_enhance_score"
    /\ KevOf(eval.arg) /\ EpssOf(eval.arg) = 501
    /\ eval.result.ai_risk_score[1] > AfterKev(eval.arg)
    /\ AfterKev(eval.arg) > BaseOf(eval.arg)
    /\ eval.result.ai_risk_score[1] < 10000

\* C17: ai_priority is IMMEDIATE iff ai_risk >= 9, HIGH iff 7 <= ai_risk < 9,
\* MEDIUM iff 4 <= ai_risk < 7 and LOW below 4; the urgency is "24 hours" for
\* every KEV entry whatever its ai_risk, and otherwise "7 days" iff
\* ai_risk >= 9, "30 days" iff 7 <= ai_risk < 9, "regular cycle" below 7.
C17_PriorityAndUrgencyBands ==
    eval.fn = "ai_enhance_score" =>
        LET ai_risk == eval.result.ai_risk_score[1]
            priority == eval.result.ai_priority
            urgency == eval.result.ai_remediation_urgency
        IN  /\ priority = Some("IMMEDIATE") <=> ai_risk >= 9000
            /\ priority = Some("HIGH") <=> (7000 <= ai_risk /\ ai_risk < 9000)
            /\ priority = Some("MEDIUM") <=> (4000 <= ai_risk /\ ai_risk < 7000)
            /\ priority = Some("LOW") <=> ai_risk < 4000
            /\ KevOf(eval.arg) => urgency = Some("Patch within 24 hours")
            /\ ~KevOf(eval.arg) =>
                /\ urgency = Some("Patch within 7 days") <=> ai_risk >= 9000
                /\ urgency = Some("Patch within 30 days")
                       <=> (7000 <= ai_risk /\ ai_risk < 9000)
                /\ urgency = Some("Patch as part of regular cycle") <=> ai_risk < 7000

\* a KEV entry whose ai_risk is exactly 9.1 keeps the 24-hour urgency
C17_Witness ==
    /\ eval.fn = "ai_enhance_score"
    /\ KevOf(eval.arg)
    /\ eval.result.ai_risk_score = Some(9100)
    /\ eval.result.ai_priority = Some("IMMEDIATE")
    /\ eval.result.ai_remediation_urgency = Some("Patch within 24 hours")

(***************************************************************************)
(* the_assessor/src/types.rs: CvssSeverity::from_score, on base scores of  *)
(* one decimal, in thousandths.                                            *)
(***************************************************************************)
MaxTenths == 100

\* from_score with the boundaries in the lower band
from_score_BoundaryBelow(base_score) ==
    IF base_score = 0 THEN "None"
    ELSE IF base_score <= 4000 THEN "Low"
    ELSE IF base_score <= 7000 THEN "Medium"
    ELSE IF base_score <= 9000 THEN "High"
    ELSE "Critical"

\* CvssSeverity::from_score
from_score(base_score) ==
    IF base_score = 0 THEN "None"
    ELSE IF base_score < 4000 THEN "Low"
    ELSE IF base_score < 7000 THEN "Medium"
    ELSE IF base_score < 9000 THEN "High"
    ELSE "Critical"

BaseScoreInputs == {100 * n : n \in 0..MaxTenths}

FromScore ==
    /\ Fresh
    /\ \E base_score \in BaseScoreInputs : Apply("from_score", base_score, from_score(base_score))

FromScoreNext == FromScore

\* C20: from_score maps 0.0 to None, 0.1..3.9 to Low, 4.0..6.9 to Medium,
\* 7.0..8.9 to High and 9.0..10.0 to Critical: 4.0, 7.0 and 9.0 belong to the
\* higher band.
C20_SeverityBands ==
    eval.fn = "from_score" =>
        /\ eval.result = "None" <=> eval.arg = 0
        /\ eval.result = "Low" <=> eval.arg \in 100..3900
        /\ eval.result = "Medium" <=> eval.arg \in 4000..6900
        /\ eval.result = "High" <=> eval.arg \in 7000..8900
        /\ eval.result = "Critical" <=> eval.arg >= 9000
        /\ eval.result \in {"None", "Low", "Medium", "High", "Critical"}

\* the boundary 7.0 is rated High
C20_Witness ==
    /\ eval.fn = "from_score"
    /\ eval.arg = 7000
    /\ eval.result = "High"

(***************************************************************************)
(* the_assessor/src/cvss.rs: parse_cvss_v3_vector.  A vector is a sequence *)
(* of characters; str::split and the match on the key are computed on it.  *)
(***************************************************************************)
\* str::split(sep).collect(): the pieces between the separators, one piece
\* (the whole string, possibly empty) when there is no separator
RECURSIVE Split(_, _)
Split(str, sep) ==
    IF \A i \in 1..Len(str) : str[i] # sep
    THEN <<str>>
    ELSE LET i == CHOOSE k \in 1..Len(str) :
                      str[k] = sep /\ \A j \in 1..(k - 1) : str[j] # sep
         IN  <<SubSeq(str, 1, i - 1)>> \o Split(SubSeq(str, i + 1, Len(str)), sep)

\* the CvssV3Base of String::new() fields built before the loop
EmptyCvssV3Base ==
    [attack_vector |-> << >>, attack_complexity |-> << >>,
     privileges_required |-> << >>, user_interaction |-> << >>, scope |-> << >>,
     confidentiality |-> << >>, integrity |-> << >>, availability |-> << >>]

\* the body of the loop over parts[1..]
SetMetric(metrics, part) ==
    LET kv == Split(part, ":")
    IN  IF Len(kv) # 2 THEN metrics
        ELSE IF kv[1] = <<"A", "V">> THEN [metrics EXCEPT !.attack_vector = kv[2]]
        ELSE IF kv[1] = <<"A", "C">> THEN [metrics EXCEPT !.attack_complexity = kv[2]]
        ELSE IF kv[1] = <<"P", "R">> THEN [metrics EXCEPT !.privileges_required = kv[2]]
        ELSE IF kv[1] = <<"U", "I">> THEN [metrics EXCEPT !.user_interaction = kv[2]]
        ELSE IF kv[1] = <<"S">> THEN [metrics EXCEPT !.scope = kv[2]]
        ELSE IF kv[1] = <<"C">> THEN [metrics EXCEPT !.confidentiality = kv[2]]
        ELSE IF kv[1] = <<"I">> THEN [metrics EXCEPT !.integrity = kv[2]]
        ELSE IF kv[1] = <<"A">> THEN [metrics EXCEPT !.availability = kv[2]]
        ELSE metrics

RECURSIVE ParseParts(_, _)
ParseParts(metrics, parts) ==
    IF parts = << >> THEN metrics
    ELSE ParseParts(SetMetric(metrics, Head(parts)), Tail(parts))

\* the validation that all required metrics are present
AnyMetricEmpty(metrics) ==
    \/ metrics.attack_vector = << >>
    \/ metrics.attack_complexity = << >>
    \/ metrics.privileges_required = << >>
    \/ metrics.user_interaction = << >>
    \/ metrics.scope = << >>
    \/ metrics.confidentiality = << >>
    \/ metrics.integrity = << >>
    \/ metrics.availability = << >>

\* Result<CvssV3Base, String>
ParseOk(metrics) == [ok |-> TRUE, metrics |-> Some(metrics), err |-> ""]
ParseErr(msg) == [ok |-> FALSE, metrics |-> None, err |-> msg]

CvssV3Prefix == <<"C", "V", "S", "S", ":", "3">>

\* parse_cvss_v3_vector without the validation of the required metrics
parse_cvss_v3_vector_Unvalidated(vector) ==
    LET parts == Split(vector, "/")
    IN  IF Len(parts) = 0 \/ ~starts_with(parts[1], CvssV3Prefix)
        THEN ParseErr("Invalid CVSS v3 vector string")
        ELSE ParseOk(ParseParts(EmptyCvssV3Base, Tail(parts)))

\* parse_cvss_v3_vector
parse_cvss_v3_vector(vector) ==
    LET parts == Split(vector, "/")
    IN  IF Len(parts) = 0 \/ ~starts_with(parts[1], CvssV3Prefix)
        THEN ParseErr("Invalid CVSS v3 vector string")
        ELSE LET metrics == ParseParts(EmptyCvssV3Base, Tail(parts))
             IN  IF AnyMetricEmpty(metrics)
                 THEN ParseErr("Missing required CVSS metrics")
                 ELSE ParseOk(metrics)

\* the enumerated domain of each metric (types.rs, and the match arms of the
\* metric value functions)
MetricDomains ==
    [attack_vector |-> {"N", "A", "L", "P"}, attack_complexity |-> {"L", "H"},
     privileges_required |-> {"N", "L", "H"}, user_interaction |-> {"N", "R"},
     scope |-> {"U", "C"}, confidentiality |-> {"N", "L", "H"},
     integrity |-> {"N", "L", "H"}, availability |-> {"N", "L", "H"}]

MetricKeys ==
    << <<"A", "V">>, <<"A", "C">>, <<"P", "R">>, <<"U", "I">>, <<"S">>, <<"C">>,
       <<"I">>, <<"A">> >>

\* the first segments of the vectors tried
VectorHeads ==
    {<<"C", "V", "S", "S", ":", "3", ".", "1">>,
     <<"C", "V", "S", "S", ":", "2", ".", "0">>,
     <<"i", "n", "v", "a", "l", "i", "d">>}

\* for each metric: left out (0), a value of its domain (1), the letter X (2)
MetricValue(i, choice) ==
    IF choice = 2 THEN "X"
    ELSE <<"N", "L", "N", "N", "C", "H", "H", "H">>[i]

RECURSIVE JoinMetrics(_, _)
JoinMetrics(choices, i) ==
    IF i > Len(MetricKeys) THEN << >>
    ELSE (IF choices[i] = 0 THEN << >>
          ELSE <<"/">> \o MetricKeys[i] \o <<":", MetricValue(i, choices[i])>>)
         \o JoinMetrics(choices, i + 1)

\* vectors with any metric left out or outside its domain, with or without
\* the unknown key E, and some malformed ones: "", a segment with two ':',
\* an empty value, a metric given twice
VectorInputs ==
    {head \o JoinMetrics(choices, 1) \o extra :
        head \in VectorHeads,
        choices \in [1..Len(MetricKeys) -> {0, 1, 2}],
        extra \in {<< >>, <<"/", "E", ":", "P">>}}
    \cup {<< >>,
          CvssV3Prefix \o <<"/", "A", "V", ":", "N", ":", "N">>
              \o JoinMetrics([i \in 1..8 |-> IF i = 1 THEN 0 ELSE 1], 1),
          CvssV3Prefix \o <<"/", "A", "V", ":">>
              \o JoinMetrics([i \in 1..8 |-> IF i = 1 THEN 0 ELSE 1], 1),
          CvssV3Prefix \o JoinMetrics([i \in 1..8 |-> 1], 1)
              \o <<"/", "A", "V", ":", "P">>}

ParseCvssV3Vector ==
    /\ Fresh
    /\ \E vector \in VectorInputs :
           Apply("parse_cvss_v3_vector", vector, parse_cvss_v3_vector(vector))

ParseNext == ParseCvssV3Vector

\* the vector begins with "CVSS:3"
HasV3Prefix(v) ==
    /\ Len(v) >= 6
    /\ v[1] = "C" /\ v[2] = "V" /\ v[3] = "S" /\ v[4] = "S" /\ v[5] = ":" /\ v[6] = "3"

\* the text w stands in v at position i
StandsAt(v, w, i) ==
    /\ i + Len(w) - 1 <= Len(v)
    /\ \A j \in 1..Len(w) : v[i + j - 1] = w[j]

\* some segment after the first begins with key and ':'
HasMetric(v, key) ==
    \E i \in 1..Len(v) : StandsAt(v, <<"/">> \o key \o <<":">>, i)

\* some segment after the first is key, ':' and one letter
HasMetricValue(v, key) ==
    \E i \in 1..Len(v) :
        LET at == i + Len(key) + 2
        IN  /\ StandsAt(v, <<"/">> \o key \o <<":">>, i)
            /\ at <= Len(v) /\ v[at] \notin {"/", ":"}
            /\ (at = Len(v) \/ v[at + 1] = "/")

\* C18: parse_cvss_v3_vector returns an error, and no CvssV3Base, when the
\* first segment does not begin with the CVSS v3 prefix or when one of AV, AC,
\* PR, UI, S, C, I, A is missing; segments with other keys are ignored, so
\* a vector with the prefix and the eight metrics is accepted with or without
\* them.
C18_MalformedVectorRejected ==
    eval.fn = "parse_cvss_v3_vector" =>
        /\ (\/ ~HasV3Prefix(eval.arg)
            \/ \E i \in 1..Len(MetricKeys) : ~HasMetric(eval.arg, MetricKeys[i]))
           => (~eval.result.ok /\ eval.result.metrics = None)
        /\ (/\ HasV3Prefix(eval.arg)
            /\ \A i \in 1..Len(MetricKeys) : HasMetricValue(eval.arg, MetricKeys[i]))
           => eval.result.ok
        /\ eval.result.ok <=> eval.result.metrics # None

\* a v3 vector with the unknown key E and every metric but A: rejected
C18_Witness ==
    /\ eval.fn = "parse_cvss_v3_vector"
    /\ HasV3Prefix(eval.arg)
    /\ HasMetric(eval.arg, <<"E">>)
    /\ \A i \in 1..7 : HasMetricValue(eval.arg, MetricKeys[i])
    /\ ~HasMetric(eval.arg, <<"A">>)
    /\ ~eval.result.ok
    /\ eval.result.err = "Missing required CVSS metrics"

\* C19: every CvssV3Base that parse_cvss_v3_vector returns has each metric
\* inside its domain; a vector with a value outside the domain is rejected.
C19_ReturnedMetricsInDomain ==
    (eval.fn = "parse_cvss_v3_vector" /\ eval.result.ok) =>
        LET metrics == eval.result.metrics[1]
        IN  \A field \in DOMAIN MetricDomains :
                /\ Len(metrics[field]) = 1
                /\ metrics[field][1] \in MetricDomains[field]

(***************************************************************************)
(* the_assessor/src/cvss.rs: calculate_cvss_v3_base_score and              *)
(* cvss_v3_from_vector.  Metric weights are in hundredths; sub-scores are  *)
(* fixed-point numbers of eight decimals (1.0 is 100000000), products of   *)
(* two of them are taken limb by limb so that every intermediate value     *)
(* fits 32 bits.  Products that are not exact are rounded toward zero: the *)
(* error stays below 0.000001, less than the distance of any score to a    *)
(* multiple of 0.1.  Base scores are in thousandths as elsewhere.          *)
(***************************************************************************)
attack_vector_value(av) ==
    IF av = <<"N">> THEN 85
    ELSE IF av = <<"A">> THEN 62
    ELSE IF av = <<"L">> THEN 55
    ELSE IF av = <<"P">> THEN 20
    ELSE 0

attack_complexity_value(ac) ==
    IF ac = <<"L">> THEN 77
    ELSE IF ac = <<"H">> THEN 44
    ELSE 0

privileges_required_value(pr, scope) ==
    IF pr = <<"N">> THEN 85
    ELSE IF pr = <<"L">> /\ scope = <<"U">> THEN 62
    ELSE IF pr = <<"L">> /\ scope = <<"C">> THEN 68
    ELSE IF pr = <<"H">> /\ scope = <<"U">> THEN 27
    ELSE IF pr = <<"H">> /\ scope = <<"C">> THEN 50
    ELSE 0

user_interaction_value(ui) ==
    IF ui = <<"N">> THEN 85
    ELSE IF ui = <<"R">> THEN 62
    ELSE 0

confidentiality_impact(c) ==
    IF c = <<"H">> THEN 56
    ELSE IF c = <<"L">> THEN 22
    ELSE 0

integrity_impact(i) ==
    IF i = <<"H">> THEN 56
    ELSE IF i = <<"L">> THEN 22
    ELSE 0

availability_impact(a) ==
    IF a = <<"H">> THEN 56
    ELSE IF a = <<"L">> THEN 22
    ELSE 0

\* the product of two non-negative fixed-point numbers of eight decimals
MulFix(a, b) ==
    LET ah == a \div 10000
        al == a % 10000
        bh == b \div 10000
        bl == b % 10000
    IN  ah * bh + (ah * bl + al * bh) \div 10000 + (al * bl) \div 100000000

\* x.powi(n) for a non-negative fixed-point x
RECURSIVE PowFix(_, _)
PowFix(x, n) == IF n = 1 THEN x ELSE MulFix(PowFix(x, n - 1), x)

\* x.powi(15)
powi15(x) == IF x < 0 THEN 0 - PowFix(0 - x, 15) ELSE PowFix(x, 15)

\* 3.25 * p, toward zero
Times325(p) ==
    IF p < 0 THEN 0 - (3 * (0 - p) + (25 * (0 - p)) \div 100)
    ELSE 3 * p + (25 * p) \div 100

\* roundup that drops the fraction instead
roundup_Floor(value) == (value \div 10000000) * 100

\* roundup: (value * 10.0).ceil() / 10.0, from eight decimals to thousandths
roundup(value) == ((value + 9999999) \div 10000000) * 100

\* 1 - (1 - C)(1 - I)(1 - A), in millionths
isc_base(metrics) ==
    1000000 - (100 - confidentiality_impact(metrics.confidentiality))
                * (100 - integrity_impact(metrics.integrity))
                * (100 - availability_impact(metrics.availability))

\* the impact sub-score
impact_subscore(metrics) ==
    IF metrics.scope = <<"U">>
    THEN 642 * isc_base(metrics)
    ELSE 752 * (isc_base(metrics) - 29000)
         - Times325(powi15((isc_base(metrics) - 20000) * 100))

\* the exploitability sub-score: 8.22 * AV * AC * PR * UI
exploitability_subscore(metrics) ==
    LET weights == (attack_vector_value(metrics.attack_vector)
                      * attack_complexity_value(metrics.attack_complexity))
                   * (privileges_required_value(metrics.privileges_required, metrics.scope)
                      * user_interaction_value(metrics.user_interaction))
    IN  8 * weights + (22 * weights) \div 100

\* 1.08 * x
Times108(x) == x + (x \div 100) * 8 + ((x % 100) * 8) \div 100

\* calculate_cvss_v3_base_score without the test of the impact sub-score
calculate_cvss_v3_base_score_NoImpactTest(metrics) ==
    LET impact == impact_subscore(metrics)
        exploitability == exploitability_subscore(metrics)
    IN  IF metrics.scope = <<"U">>
        THEN roundup(Min(impact + exploitability, 1000000000))
        ELSE roundup(Min(Times108(impact + exploitability), 1000000000))

\* calculate_cvss_v3_base_score
calculate_cvss_v3_base_score(metrics) ==
    LET impact == impact_subscore(metrics)
        exploitability == exploitability_subscore(metrics)
    IN  IF impact <= 0 THEN 0
        ELSE IF metrics.scope = <<"U">>
        THEN roundup(Min(impact + exploitability, 1000000000))
        ELSE roundup(Min(Times108(impact + exploitability), 1000000000))

\* Result<CvssV3, String>
CvssOk(cvss) == [ok |-> TRUE, cvss |-> Some(cvss), err |-> ""]
CvssErr(msg) == [ok |-> FALSE, cvss |-> None, err |-> msg]

\* cvss_v3_from_vector
cvss_v3_from_vector(vector) ==
    LET parsed == parse_cvss_v3_vector(vector)
    IN  IF ~parsed.ok THEN CvssErr(parsed.err)
        ELSE LET metrics == Unwrap(parsed.metrics)
                 base_score == calculate_cvss_v3_base_score(metrics)
             IN  CvssOk([base_metrics |-> metrics,
                         base_score |-> base_score,
                         temporal_score |-> None,
                         environmental_score |-> None,
                         severity |-> from_score(base_score),
                         vector_string |-> vector])

RECURSIVE JoinValues(_, _)
JoinValues(values, i) ==
    IF i > Len(MetricKeys) THEN << >>
    ELSE <<"/">> \o MetricKeys[i] \o <<":", values[i]>> \o JoinValues(values, i + 1)

\* every vector of eight metrics of their domains, scope and confidentiality
\* also with the letter X, under a v3 head
FromVector ==
    /\ Fresh
    /\ \E av \in MetricDomains.attack_vector, ac \in MetricDomains.attack_complexity,
          pr \in MetricDomains.privileges_required, ui \in MetricDomains.user_interaction,
          scope \in MetricDomains.scope \cup {"X"},
          c \in MetricDomains.confidentiality \cup {"X"},
          i \in MetricDomains.integrity, a \in MetricDomains.availability,
          head \in {<<"C", "V", "S", "S", ":", "3", ".", "1">>} :
        LET vector == head \o JoinValues(<<av, ac, pr, ui, scope, c, i, a>>, 1)
        IN  Apply("cvss_v3_from_vector", vector, cvss_v3_from_vector(vector))

\* vectors under any head, with any of the metrics left out
FromVectorAnyHead ==
    /\ Fresh
    /\ \E head \in VectorHeads, choices \in [1..Len(MetricKeys) -> {0, 1}] :
        LET vector == head \o JoinMetrics(choices, 1)
        IN  Apply("cvss_v3_from_vector", vector, cvss_v3_from_vector(vector))

FromVectorNext == FromVector \/ FromVectorAnyHead

V31 == <<"C", "V", "S", "S", ":", "3", ".", "1">>
NetworkVectorChanged ==
    V31 \o <<"/", "A", "V", ":", "N", "/", "A", "C", ":", "L", "/", "P", "R", ":", "N",
             "/", "U", "I", ":", "N", "/", "S", ":", "C", "/", "C", ":", "H",
             "/", "I", ":", "H", "/", "A", ":", "H">>
NetworkVectorUnchanged ==
    V31 \o <<"/", "A", "V", ":", "N", "/", "A", "C", ":", "L", "/", "P", "R", ":", "N",
             "/", "U", "I", ":", "N", "/", "S", ":", "U", "/", "C", ":", "H",
             "/", "I", ":", "H", "/", "A", ":", "H">>

\* C21: CVSS:3.1/AV:N/AC:L/PR:N/UI:N/S:C/C:H/I:H/A:H scores 10.0 (the cap at
\* 10) and the same vector with S:U scores 9.8 (9.76.. rounded up to one
\* decimal); both are Critical.
C21_NetworkVectorScores ==
    (eval.fn = "cvss_v3_from_vector"
        /\ eval.arg \in {NetworkVectorChanged, NetworkVectorUnchanged}) =>
        /\ eval.result.ok
        /\ eval.result.cvss[1].severity = "Critical"
        /\ eval.arg = NetworkVectorChanged => eval.result.cvss[1].base_score = 10000
        /\ eval.arg = NetworkVectorUnchanged => eval.result.cvss[1].base_score = 9800

\* the scope-unchanged vector, scored 9.8
C21_Witness ==
    /\ eval.fn = "cvss_v3_from_vector"
    /\ eval.arg = NetworkVectorUnchanged
    /\ eval.result.ok
    /\ eval.result.cvss[1].base_score = 9800

\* the scope-changed vector, scored 10.0
C21_WitnessCapped ==
    /\ eval.fn = "cvss_v3_from_vector"
    /\ eval.arg = NetworkVectorChanged
    /\ eval.result.ok
    /\ eval.result.cvss[1].base_score = 10000

\* C, I and A are all None in the vector
NoImpact(v) ==
    /\ \E k \in 1..Len(v) : StandsAt(v, <<"/", "C", ":", "N">>, k)
    /\ \E k \in 1..Len(v) : StandsAt(v, <<"/", "I", ":", "N">>, k)
    /\ \E k \in 1..Len(v) : StandsAt(v, <<"/", "A", ":", "N">>, k)

\* C22: an accepted vector gets a base score in [0.0, 10.0] of one decimal,
\* the score 0 and the severity None when C, I and A are all None, and the
\* severity that from_score gives for the base score.
C22_ScoreInRangeAndBanded ==
    (eval.fn = "cvss_v3_from_vector" /\ eval.result.ok) =>
        LET cvss == eval.result.cvss[1]
        IN  /\ 0 <= cvss.base_score /\ cvss.base_score <= 10000
            /\ cvss.base_score % 100 = 0
            /\ NoImpact(eval.arg) => (cvss.base_score = 0 /\ cvss.severity = "None")
            /\ cvss.severity = "None" <=> cvss.base_score = 0
            /\ cvss.severity = "Low" <=> cvss.base_score \in 1..3999
            /\ cvss.severity = "Medium" <=> cvss.base_score \in 4000..6999
            /\ cvss.severity = "High" <=> cvss.base_score \in 7000..8999
            /\ cvss.severity = "Critical" <=> cvss.base_score \in 9000..10000
            /\ cvss.vector_string = eval.arg

\* a network vector with no impact at all: exploitable, yet scored 0
C22_Witness ==
    /\ eval.fn = "cvss_v3_from_vector"
    /\ eval.result.ok
    /\ NoImpact(eval.arg)
    /\ \E k \in 1..Len(eval.arg) : StandsAt(eval.arg, <<"/", "A", "V", ":", "N">>, k)
    /\ \E k \in 1..Len(eval.arg) : StandsAt(eval.arg, <<"/", "S", ":", "U">>, k)
    /\ eval.result.cvss[1].base_score = 0

(***************************************************************************)
(* the_collective/src/api/mod.rs: TheCollective.  the_inquiry_sync runs in *)
(* two steps per task: everything up to the call of the selected agitator, *)
(* and everything from the agitator's answer on.  The cache is TheMemory   *)
(* (entries, ttl, max_size) and the clock is `now`.                        *)
(***************************************************************************)
MaxInquiries == 3

\* default_cache_threshold, in thousandths
cache_threshold == 800

NoInquiry == [id |-> 0, task |-> "", data |-> "", preferred_agitator |-> None]
NoReply == [inquiry_id |-> 0, content |-> "", certainty |-> 0, agitator_used |-> ""]

\* CryptexResult<TheReply>
InquiryOk(reply) == [ok |-> TRUE, reply |-> reply, err |-> "", from_cache |-> FALSE]
InquiryHit(reply) == [ok |-> TRUE, reply |-> reply, err |-> "", from_cache |-> TRUE]
InquiryErr(msg) == [ok |-> FALSE, reply |-> NoReply, err |-> msg, from_cache |-> FALSE]
NoInquiryRet == [ok |-> FALSE, reply |-> NoReply, err |-> "none", from_cache |-> FALSE]

NotStarted == [pc |-> "idle", inquiry |-> NoInquiry, agitator |-> ""]

\* TheObserver::the_awakening
TheObserver_the_awakening ==
    [inquiries_total |-> 0, inquiries_success |-> 0, inquiries_failure |-> 0,
     cache_hits |-> 0, cache_misses |-> 0,
     openai_requests |-> 0, openai_successes |-> 0, openai_failures |-> 0,
     claude_requests |-> 0, claude_successes |-> 0, claude_failures |-> 0]

record_inquiry_start(o) == [o EXCEPT !.inquiries_total = @ + 1]
record_inquiry_complete(o) == [o EXCEPT !.inquiries_success = @ + 1]
record_inquiry_failed(o) == [o EXCEPT !.inquiries_failure = @ + 1]
record_cache_hit(o) == [o EXCEPT !.cache_hits = @ + 1]
record_cache_miss(o) == [o EXCEPT !.cache_misses = @ + 1]

\* record_agitator_request: the name is format!("{:?}", agitator_type)
record_agitator_request(o, agitator, success) ==
    IF agitator = "OpenAI"
    THEN [o EXCEPT !.openai_requests = @ + 1,
                   !.openai_successes = IF success THEN @ + 1 ELSE @,
                   !.openai_failures = IF success THEN @ ELSE @ + 1]
    ELSE IF agitator = "Claude"
    THEN [o EXCEPT !.claude_requests = @ + 1,
                   !.claude_successes = IF success THEN @ + 1 ELSE @,
                   !.claude_failures = IF success THEN @ ELSE @ + 1]
    ELSE o

\* TheInquiry::fingerprint: the hash of the task and the data, not of the id
fingerprint(inquiry) == <<"inquiry", inquiry.task, inquiry.data>>

\* the state before TheCollective::the_awakening
CollectiveInit ==
    /\ awakened = FALSE
    /\ agitators = << >>
    /\ observer = TheObserver_the_awakening
    /\ inquiry_of = [t \in Tasks |-> NotStarted]
    /\ inquiry_ret = [t \in Tasks |-> NoInquiryRet]
    /\ agitations = 0
    /\ inquiries = 0

CollectiveFrame ==
    UNCHANGED <<assessorVars, infiltratorVars, reportVars, archiveVars, eval, interfaceVars,
                ttl, max_size, pending, mem_ret, mem_ops, last_evicted, lockVars>>

\* charter.agitators: the configured agitators
AgitatorConfigs ==
    {<< >>,
     <<[agitator_type |-> "openai", enabled |-> TRUE]>>,
     <<[agitator_type |-> "claude", enabled |-> FALSE],
       [agitator_type |-> "openai", enabled |-> TRUE]>>,
     <<[agitator_type |-> "openai", enabled |-> TRUE],
       [agitator_type |-> "claude", enabled |-> TRUE]>>}

RECURSIVE AwakenAgitators(_)
AwakenAgitators(configs) ==
    IF configs = << >> THEN << >>
    ELSE LET c == Head(configs)
         IN  (IF ~c.enabled THEN << >>
              ELSE IF c.agitator_type = "openai" THEN <<"OpenAI">>
              ELSE IF c.agitator_type = "claude" THEN <<"Claude">>
              ELSE << >>) \o AwakenAgitators(Tail(configs))

\* TheCollective::the_awakening
TheCollective_the_awakening(configs) ==
    /\ ~awakened
    /\ awakened' = TRUE
    /\ agitators' = AwakenAgitators(configs)
    /\ observer' = TheObserver_the_awakening
    /\ UNCHANGED <<inquiry_of, inquiry_ret, agitations, inquiries, entries, now>>
    /\ CollectiveFrame

\* the inquiries made: ids are fresh (Uuid::new_v4)
InquiryInputs ==
    {[id |-> inquiries + 1, task |-> "VulnerabilityAnalysis", data |-> d,
      preferred_agitator |-> pa] :
        d \in {"CVE-2021-44228", "CVE-2024-0001"},
        pa \in {None, Some("OpenAI"), Some("Claude")}}

\* the_inquiry_sync up to the call of the agitator: record the start, look
\* the fingerprint up in The Memory, select the agitator
InquiryBegin(t, inquiry) ==
    LET key == fingerprint(inquiry)
        started == record_inquiry_start(observer)
        live == key \in DOMAIN entries /\ now < entries[key].expires_at
        missed == record_cache_miss(started)
        found == IF inquiry.preferred_agitator = None THEN agitators
                 ELSE SelectSeq(agitators,
                                LAMBDA a : a = Unwrap(inquiry.preferred_agitator))
    IN  /\ awakened
        /\ inquiry_of[t].pc \in {"idle", "returned"}
        /\ inquiries < MaxInquiries
        /\ inquiries' = inquiries + 1
        /\ entries' = IF key \in DOMAIN entries /\ ~live THEN MapRemove(entries, key)
                      ELSE entries
        /\ IF live
           THEN /\ observer' = record_inquiry_complete(record_cache_hit(started))
                /\ inquiry_ret' = [inquiry_ret EXCEPT ![t] = InquiryHit(entries[key].reply)]
                /\ inquiry_of' = [inquiry_of EXCEPT ![t] =
                                    [pc |-> "returned", inquiry |-> inquiry, agitator |-> ""]]
           ELSE IF agitators = << >>
           THEN /\ observer' = record_inquiry_failed(missed)
                /\ inquiry_ret' = [inquiry_ret EXCEPT ![t] =
                                      InquiryErr("No agitators available")]
                /\ inquiry_of' = [inquiry_of EXCEPT ![t] =
                                    [pc |-> "returned", inquiry |-> inquiry, agitator |-> ""]]
           ELSE IF found = << >>
           THEN /\ observer' = missed
                /\ inquiry_ret' = [inquiry_ret EXCEPT ![t] =
                                      InquiryErr("Preferred agitator type not available")]
                /\ inquiry_of' = [inquiry_of EXCEPT ![t] =
                                    [pc |-> "returned", inquiry |-> inquiry, agitator |-> ""]]
           ELSE /\ observer' = missed
                /\ inquiry_ret' = [inquiry_ret EXCEPT ![t] = NoInquiryRet]
                /\ inquiry_of' = [inquiry_of EXCEPT ![t] =
                                    [pc |-> "agitating", inquiry |-> inquiry,
                                     agitator |-> found[1]]]
        /\ UNCHANGED <<awakened, agitators, agitations, now>>
        /\ CollectiveFrame

\* what the_agitation can answer: an error, or a reply with some certainty
AgitationOutcomes ==
    {[ok |-> FALSE, certainty |-> 0]}
        \cup {[ok |-> TRUE, certainty |-> c] : c \in {500, 800, 950}}

\* TheMemory::store on the entries es: the maps it can leave
StoreOutcomes(es, key, reply) ==
    LET live == evict_expired(es, now)
        room == IF AtCapacity(Cardinality(DOMAIN live), max_size) /\ DOMAIN live # {}
                THEN {MapRemove(live, k) : k \in DOMAIN live}
                ELSE {live}
    IN  {MapInsert(m, key, [reply |-> reply, expires_at |-> now + ttl]) : m \in room}

\* the test that decides whether the reply is cached, without the threshold
meets_threshold_Always(certainty) == TRUE

\* certainty >= self.charter.cache_threshold
meets_threshold(certainty) == certainty >= cache_threshold

\* the_inquiry_sync from the agitator's answer on
InquiryComplete(t, outcome) ==
    LET inquiry == inquiry_of[t].inquiry
        agitator == inquiry_of[t].agitator
        recorded == record_agitator_request(observer, agitator, outcome.ok)
        reply == [inquiry_id |-> inquiry.id, content |-> inquiry.data,
                  certainty |-> outcome.certainty, agitator_used |-> agitator]
    IN  /\ inquiry_of[t].pc = "agitating"
        /\ agitations' = agitations + 1
        /\ inquiry_of' = [inquiry_of EXCEPT ![t].pc = "returned"]
        /\ IF outcome.ok
           THEN /\ IF meets_threshold(outcome.certainty)
                   THEN entries' \in StoreOutcomes(entries, fingerprint(inquiry), reply)
                   ELSE entries' = entries
                /\ observer' = record_inquiry_complete(recorded)
                /\ inquiry_ret' = [inquiry_ret EXCEPT ![t] = InquiryOk(reply)]
           ELSE /\ entries' = entries
                /\ observer' = record_inquiry_failed(recorded)
                /\ inquiry_ret' = [inquiry_ret EXCEPT ![t] = InquiryErr("agitation failed")]
        /\ UNCHANGED <<awakened, agitators, inquiries, now>>
        /\ CollectiveFrame

\* the clock advances
CollectiveTick ==
    /\ now < MaxTime
    /\ now' = now + 1
    /\ UNCHANGED <<collectiveVars, entries>>
    /\ CollectiveFrame

CollectiveNext ==
    \/ \E configs \in AgitatorConfigs : TheCollective_the_awakening(configs)
    \/ \E t \in Tasks : \E inquiry \in InquiryInputs : InquiryBegin(t, inquiry)
    \/ \E t \in Tasks : \E outcome \in AgitationOutcomes : InquiryComplete(t, outcome)
    \/ CollectiveTick

\* task t's the_inquiry_sync call starts in this step
InquiryStarts(t) == inquiries' = inquiries + 1 /\ inquiry_of'[t] # inquiry_of[t]

\* task t's the_inquiry_sync call gets the agitator's answer in this step
InquiryAnswered(t) == inquiry_of[t].pc = "agitating" /\ inquiry_of'[t].pc = "returned"

LiveEntry(key) == key \in DOMAIN entries /\ now < entries[key].expires_at

\* C23: every entry of The Memory has certainty >= cache_threshold; a failed
\* agitation or a reply below the threshold leaves the entries as they were;
\* an inquiry whose fingerprint has a live entry is answered with that entry
\* and no agitator is called.
C23_CachesOnlyCertainReplies ==
    /\ [](\A key \in DOMAIN entries : entries[key].reply.certainty >= 800)
    /\ [][\A t \in Tasks :
            /\ (/\ InquiryAnswered(t)
                /\ (~inquiry_ret'[t].ok \/ inquiry_ret'[t].reply.certainty < 800))
               => entries' = entries
            /\ (InquiryStarts(t) /\ LiveEntry(fingerprint(inquiry_of'[t].inquiry)))
               => /\ inquiry_of'[t].pc = "returned"
                  /\ inquiry_ret'[t].ok
                  /\ inquiry_ret'[t].reply.content = inquiry_of'[t].inquiry.data
                  /\ agitations' = agitations]_vars

\* one task was answered from the cache, the other got a reply of certainty
\* 0.5 that was not cached
C23_Witness ==
    /\ inquiry_of["t1"].pc = "returned" /\ inquiry_ret["t1"].from_cache
    /\ inquiry_of["t2"].pc = "returned" /\ inquiry_ret["t2"].ok
    /\ inquiry_ret["t2"].reply.certainty = 500
    /\ fingerprint(inquiry_of["t2"].inquiry) \notin DOMAIN entries
    /\ fingerprint(inquiry_of["t1"].inquiry) \in DOMAIN entries

\* C24: every reply the_inquiry_sync returns carries the id of the inquiry it
\* answers, replies served from the cache included.
C24_ReplyCarriesInquiryId ==
    \A t \in Tasks :
        (inquiry_of[t].pc = "returned" /\ inquiry_ret[t].ok)
            => inquiry_ret[t].reply.inquiry_id = inquiry_of[t].inquiry.id

\* C25: once every the_inquiry_sync call has returned,
\* inquiries_total = inquiries_success + inquiries_failure.
C25_EveryInquiryAccounted ==
    (\A t \in Tasks : inquiry_of[t].pc # "agitating")
        => observer.inquiries_total
             = observer.inquiries_success + observer.inquiries_failure

(***************************************************************************)
(* the_interface/src/lib.rs: the REST handlers                             *)
(***************************************************************************)
MaxApiCalls == 4

NoApiRet == [ok |-> FALSE, handler |-> "none", scan_id |-> 0, err |-> ""]
ApiOk(handler, scan_id) == [ok |-> TRUE, handler |-> handler, scan_id |-> scan_id, err |-> ""]
ApiError(handler, scan_id, err) ==
    [ok |-> FALSE, handler |-> handler, scan_id |-> scan_id, err |-> err]

InterfaceInit ==
    /\ api_ret = NoApiRet
    /\ api_ops = 0

\* what a handler leaves alone
InterfaceFrame ==
    UNCHANGED <<pc, call, score, aret, ret, batch, ran, computed, nops, reportVars,
                memoryVars, vulns_table, results_table, arch_last, arch_ret, arch_ops,
                now, eval, collectiveVars, lockVars>>

ApiCall ==
    /\ api_ops < MaxApiCalls
    /\ api_ops' = api_ops + 1

\* TheInfiltrator::end_scan as one step: the report, or NotFound
infiltrator_end_scan(scan_id) ==
    IF scan_id \in DOMAIN scans
    THEN /\ scans' = MapRemove(scans, scan_id)
         /\ stats' = [stats EXCEPT !.active_scans = IF @ > 0 THEN @ - 1 ELSE 0]
         /\ end_ok' = [end_ok EXCEPT ![scan_id] = @ + 1]
    ELSE UNCHANGED <<scans, stats, end_ok>>

\* POST /scans: start_scan, then store the scan's metadata
ApiStartScan(target) ==
    /\ ApiCall
    /\ next_scan < MaxScans
    /\ next_scan' = next_scan + 1
    /\ scans' = MapInsert(scans, next_scan + 1, NewScanContext(next_scan + 1, target, now))
    /\ stats' = [stats EXCEPT !.total_scans = @ + 1, !.active_scans = @ + 1]
    /\ scans_table' = TableInsert(scans_table, next_scan + 1,
                                  EncodeScanMetadata(NewScanMetadata(next_scan + 1, target, now)))
    /\ api_ret' = ApiOk("start_scan", next_scan + 1)
    /\ UNCHANGED <<end_ok, score_cache>>
    /\ InterfaceFrame

\* TheInfiltrator::on_vulnerability_detected as one step; the assessment
\* succeeds with the enriched score or fails
OnVulnerabilityDetected(scan_id, cve_id, host, assessed) ==
    LET s == ai_enhance_score(fetch_epss_data(fetch_kev_data(
                 fetch_nvd_data(NewVulnerabilityScore(cve_id)))))
        base == NewScanResult(cve_id, host, 443)
        result == IF assessed
                  THEN [base EXCEPT
                          !.vulnerability_score = Some(s),
                          !.remediation_guidance = Some(generate_remediation_guidance(s))]
                  ELSE base
    IN  /\ ApiCall
        /\ score_cache' = IF assessed THEN MapInsert(score_cache, cve_id, s) ELSE score_cache
        /\ stats' = IF assessed
                    THEN [stats EXCEPT
                            !.ai_enhanced_results = @ + 1,
                            !.total_vulnerabilities_detected = @ + 1,
                            !.kev_vulnerabilities_detected = IF is_kev(s) THEN @ + 1 ELSE @,
                            !.critical_vulnerabilities_detected =
                                IF severity(s) = "Critical" THEN @ + 1 ELSE @]
                    ELSE stats
        /\ IF scan_id \in DOMAIN scans
           THEN /\ scans' = [scans EXCEPT ![scan_id] = ScanContext_add_result(@, result)]
                /\ api_ret' = ApiOk("on_vulnerability_detected", scan_id)
           ELSE /\ scans' = scans
                /\ api_ret' = ApiError("on_vulnerability_detected", scan_id, "NotFound")
        /\ UNCHANGED <<next_scan, end_ok, scans_table>>
        /\ InterfaceFrame

\* POST /scans/:id/end: end_scan, then mark the archived metadata completed
ApiEndScan(scan_id) ==
    /\ ApiCall
    /\ infiltrator_end_scan(scan_id)
    /\ IF scan_id \notin DOMAIN scans
       THEN /\ api_ret' = ApiError("end_scan", scan_id, "NotFound")
            /\ UNCHANGED scans_table
       ELSE IF TableGet(scans_table, scan_id) = None
       THEN /\ api_ret' = ApiError("end_scan", scan_id, "Scan not found")
            /\ UNCHANGED scans_table
       ELSE LET rep == generate_report(scans[scan_id], now)
                metadata == DecodeScanMetadata(Unwrap(TableGet(scans_table, scan_id)))
                completed == [metadata EXCEPT
                                !.status = "completed", !.ended_at = Some(now),
                                !.total_vulnerabilities = rep.total_vulnerabilities,
                                !.critical = rep.critical_count, !.high = rep.high_count,
                                !.medium = rep.medium_count, !.low = rep.low_count]
            IN  /\ scans_table' = TableInsert(scans_table, scan_id,
                                              EncodeScanMetadata(completed))
                /\ api_ret' = ApiOk("end_scan", scan_id)
    /\ UNCHANGED <<next_scan, score_cache>>
    /\ InterfaceFrame

\* what `state.infiltrator.end_scan(&scan_id).await?` does for the two
\* report handlers
ReportFromEndScan(handler, scan_id) ==
    /\ infiltrator_end_scan(scan_id)
    /\ api_ret' = IF scan_id \in DOMAIN scans THEN ApiOk(handler, scan_id)
                  ELSE ApiError(handler, scan_id, "NotFound")
    /\ UNCHANGED <<next_scan, score_cache, scans_table>>

\* GET /scans/:id/report
ApiGenerateReport(scan_id) ==
    /\ ApiCall
    /\ ReportFromEndScan("generate_report", scan_id)
    /\ InterfaceFrame

\* GET /scans/:id/executive-summary
ApiGetExecutiveSummary(scan_id) ==
    /\ ApiCall
    /\ ReportFromEndScan("get_executive_summary", scan_id)
    /\ InterfaceFrame

\* what get_scan_context gives the two MCP tools
ReportFromContext(tool, scan_id) ==
    /\ api_ret' = IF scan_id \in DOMAIN scans THEN ApiOk(tool, scan_id)
                  ELSE ApiError(tool, scan_id, "Scan not found")
    /\ UNCHANGED <<infiltratorVars, score_cache, scans_table>>

\* MCP tool generate_report
McpGenerateReport(scan_id) ==
    /\ ApiCall
    /\ ReportFromContext("mcp_generate_report", scan_id)
    /\ InterfaceFrame

\* MCP tool get_executive_summary
McpExecutiveSummary(scan_id) ==
    /\ ApiCall
    /\ ReportFromContext("mcp_get_executive_summary", scan_id)
    /\ InterfaceFrame

InterfaceNext ==
    \/ \E target \in Targets : ApiStartScan(target)
    \/ \E scan_id \in ScanIds, cve_id \in CveIds, host \in Hosts, assessed \in BOOLEAN :
           OnVulnerabilityDetected(scan_id, cve_id, host, assessed)
    \/ \E scan_id \in ScanIds : ApiEndScan(scan_id)
    \/ \E scan_id \in ScanIds : ApiGenerateReport(scan_id)
    \/ \E scan_id \in ScanIds : ApiGetExecutiveSummary(scan_id)
    \/ \E scan_id \in ScanIds : McpGenerateReport(scan_id)
    \/ \E scan_id \in ScanIds : McpExecutiveSummary(scan_id)

\* C29: producing a report or an executive summary for an active scan leaves
\* the scan active: after the handler or the tool has answered for scan_id,
\* scan_id is still in the scan map.
C29_ReportKeepsScanActive ==
    (/\ api_ret.ok
     /\ api_ret.handler \in {"generate_report", "get_executive_summary",
                             "mcp_generate_report", "mcp_get_executive_summary"})
        => api_ret.scan_id \in DOMAIN scans

(***************************************************************************)
(* The locks: TheInfiltrator's scans and stats, TheAssessor's score_cache. *)
(* Each method is the sequence of lock instructions it executes; a guard   *)
(* is released where its block ends. A tokio RwLock grants a write guard   *)
(* when nobody holds the lock and a read guard when no writer holds it.    *)
(***************************************************************************)
MaxLockCalls == 4

AcquireWrite(lock) == <<"write", lock>>
AcquireRead(lock) == <<"read", lock>>
DropGuard(lock) == <<"drop", lock>>

\* start_scan: the scans guard is held while the stats guard is taken; the
\* block drops them in reverse order of declaration
start_scan_locks ==
    {<<AcquireWrite("scans"), AcquireWrite("stats"), DropGuard("stats"), DropGuard("scans")>>}

\* assess_vulnerability: a read guard for the lookup; after a miss and a
\* successful enrichment, a write guard for the insert
assess_vulnerability_hit == <<AcquireRead("cache"), DropGuard("cache")>>

assess_vulnerability_miss ==
    <<AcquireRead("cache"), DropGuard("cache"), AcquireWrite("cache"), DropGuard("cache")>>

assess_vulnerability_failed == <<AcquireRead("cache"), DropGuard("cache")>>

\* the Ok(score) arm: two separate stats blocks
update_stats_locks ==
    <<AcquireWrite("stats"), DropGuard("stats"), AcquireWrite("stats"), DropGuard("stats")>>

add_result_locks == <<AcquireWrite("scans"), DropGuard("scans")>>

\* on_vulnerability_detected with the stats guard kept across the scan lookup
on_vulnerability_detected_locks_Nested ==
    {assess_vulnerability_hit \o
         <<AcquireWrite("stats"), AcquireWrite("scans"), DropGuard("scans"), DropGuard("stats")>>,
     assess_vulnerability_failed \o add_result_locks}

on_vulnerability_detected_locks ==
    {assess_vulnerability_hit \o update_stats_locks \o add_result_locks,
     assess_vulnerability_miss \o update_stats_locks \o add_result_locks,
     assess_vulnerability_failed \o add_result_locks}

\* end_scan: the scans block, then (scan found) the stats block
end_scan_locks ==
    {<<AcquireWrite("scans"), DropGuard("scans")>>,
     <<AcquireWrite("scans"), DropGuard("scans"), AcquireWrite("stats"), DropGuard("stats")>>}

get_scan_context_locks == {<<AcquireRead("scans"), DropGuard("scans")>>}

get_statistics_locks == {<<AcquireRead("stats"), DropGuard("stats")>>}

reset_statistics_locks == {<<AcquireWrite("stats"), DropGuard("stats")>>}

NoLockCall == [op |-> "none", path |-> << >>, at |-> 0]

LockInit ==
    /\ lock_pc = [t \in Tasks |-> NoLockCall]
    /\ held = [t \in Tasks |-> << >>]
    /\ lock_calls = 0

LockFrame ==
    UNCHANGED <<assessorVars, infiltratorVars, reportVars, memoryVars, archiveVars, now, eval,
                collectiveVars, interfaceVars>>

InCall(t) == lock_pc[t].op # "none"

\* the instruction task t executes next, << >> when it has none left
NextInstruction(t) ==
    IF InCall(t) /\ lock_pc[t].at <= Len(lock_pc[t].path)
    THEN lock_pc[t].path[lock_pc[t].at]
    ELSE << >>

Holders(lock, modes) ==
    {t \in Tasks : \E i \in 1..Len(held[t]) : held[t][i][2] = lock /\ held[t][i][1] \in modes}

\* RwLock::write and RwLock::read: when the guard is granted
Granted(instruction) ==
    IF instruction[1] = "write"
    THEN Holders(instruction[2], {"write", "read"}) = {}
    ELSE Holders(instruction[2], {"write"}) = {}

BeginCall(t, op, paths) ==
    /\ ~InCall(t)
    /\ lock_calls < MaxLockCalls
    /\ lock_calls' = lock_calls + 1
    /\ \E path \in paths : lock_pc' = [lock_pc EXCEPT ![t] = [op |-> op, path |-> path, at |-> 1]]
    /\ UNCHANGED held

CallStartScan(t) ==
    /\ BeginCall(t, "start_scan", start_scan_locks)
    /\ LockFrame

CallOnVulnerabilityDetected(t) ==
    /\ BeginCall(t, "on_vulnerability_detected", on_vulnerability_detected_locks)
    /\ LockFrame

CallEndScan(t) ==
    /\ BeginCall(t, "end_scan", end_scan_locks)
    /\ LockFrame

CallGetScanContext(t) ==
    /\ BeginCall(t, "get_scan_context", get_scan_context_locks)
    /\ LockFrame

CallGetStatistics(t) ==
    /\ BeginCall(t, "get_statistics", get_statistics_locks)
    /\ LockFrame

CallResetStatistics(t) ==
    /\ BeginCall(t, "reset_statistics", reset_statistics_locks)
    /\ LockFrame

\* `.write().await` / `.read().await`: the task goes on once the guard is granted
LockAcquire(t) ==
    /\ NextInstruction(t) # << >>
    /\ NextInstruction(t)[1] \in {"write", "read"}
    /\ Granted(NextInstruction(t))
    /\ held' = [held EXCEPT ![t] = Append(@, NextInstruction(t))]
    /\ lock_pc' = [lock_pc EXCEPT ![t].at = @ + 1]
    /\ UNCHANGED lock_calls
    /\ LockFrame

\* the end of the guard's block
LockRelease(t) ==
    /\ NextInstruction(t) # << >>
    /\ NextInstruction(t)[1] = "drop"
    /\ held' = [held EXCEPT ![t] = SelectSeq(@, LAMBDA g : g[2] # NextInstruction(t)[2])]
    /\ lock_pc' = [lock_pc EXCEPT ![t].at = @ + 1]
    /\ UNCHANGED lock_calls
    /\ LockFrame

LockReturn(t) ==
    /\ InCall(t)
    /\ NextInstruction(t) = << >>
    /\ lock_pc' = [lock_pc EXCEPT ![t] = NoLockCall]
    /\ UNCHANGED <<held, lock_calls>>
    /\ LockFrame

\* one step of the call task t is in
LockStep(t) == LockAcquire(t) \/ LockRelease(t) \/ LockReturn(t)

LocksNext ==
    \E t \in Tasks :
        \/ CallStartScan(t)
        \/ CallOnVulnerabilityDetected(t)
        \/ CallEndScan(t)
        \/ CallGetScanContext(t)
        \/ CallGetStatistics(t)
        \/ CallResetStatistics(t)
        \/ LockAcquire(t)
        \/ LockRelease(t)
        \/ LockReturn(t)

\* task t waits for a guard that is not granted
Waiting(t) ==
    /\ NextInstruction(t) # << >>
    /\ NextInstruction(t)[1] \in {"write", "read"}
    /\ ~Granted(NextInstruction(t))

\* the locks task t holds, followed by the one it is asking for
LockSequence(t) ==
    [i \in 1..Len(held[t]) |-> held[t][i][2]] \o
        (IF NextInstruction(t) # << >> /\ NextInstruction(t)[1] \in {"write", "read"}
         THEN <<NextInstruction(t)[2]>> ELSE << >>)

\* <<a, b>>: task t takes b while it holds a
NestedOrders(t) ==
    {<<LockSequence(t)[p[1]], LockSequence(t)[p[2]]>> :
        p \in {q \in (1..Len(LockSequence(t))) \X (1..Len(LockSequence(t))) : q[1] < q[2]}}

NoConflictingOrders ==
    \A t \in Tasks, u \in Tasks :
        \A order \in NestedOrders(t) : <<order[2], order[1]>> \notin NestedOrders(u)

\* C26: whatever the interleaving of start_scan, on_vulnerability_detected,
\* end_scan, get_scan_context, get_statistics and reset_statistics, no two
\* calls take two locks in opposite nested orders, and under fair scheduling
\* every call in progress eventually returns.
C26_NoDeadlock ==
    /\ []NoConflictingOrders
    /\ \A t \in Tasks : InCall(t) ~> ~InCall(t)

\* a task holds scans and stats nested while another waits for a guard
C26_Witness ==
    \E t \in Tasks, u \in Tasks :
        /\ t # u
        /\ LockSequence(t) = <<"scans", "stats">>
        /\ Len(held[t]) = 2
        /\ Waiting(u)

(***************************************************************************)
(* Specifications: one per component, the others at rest.                  *)
(***************************************************************************)
Init ==
    /\ AssessorInit /\ InfiltratorInit /\ ReportInit /\ MemoryInit /\ ArchiveInit
    /\ now = 0
    /\ eval = NoEval
    /\ CollectiveInit
    /\ InterfaceInit
    /\ LockInit

SpecAssessor == Init /\ [][AssessorNext]_vars

SpecReport == Init /\ [][ReportNext]_vars

SpecInfiltrator == Init /\ [][InfiltratorNext]_vars

SpecInfiltratorNoReset == Init /\ [][InfiltratorNoResetNext]_vars

\* TheMemory awakened with any size limit and ttl within the bounds
InitMemory ==
    /\ AssessorInit /\ InfiltratorInit /\ ReportInit /\ ArchiveInit
    /\ \E max_size_mb \in 0..MaxSize, ttl_seconds \in 0..MaxTtl :
           TheMemory_the_awakening(max_size_mb, ttl_seconds)
    /\ now = 0
    /\ eval = NoEval
    /\ CollectiveInit
    /\ InterfaceInit
    /\ LockInit

SpecMemory == InitMemory /\ [][MemoryNext]_vars

SpecArchive == Init /\ [][ArchiveNext]_vars

SpecScanResults == Init /\ [][ScanResultsNext]_vars

SpecMatches == Init /\ [][MatchesNext]_vars

SpecQuery == Init /\ [][QueryNext]_vars

SpecComposite == Init /\ [][CompositeNext]_vars

SpecAiEnhance == Init /\ [][AiEnhanceNext]_vars

SpecFromScore == Init /\ [][FromScoreNext]_vars

SpecParse == Init /\ [][ParseNext]_vars

SpecFromVector == Init /\ [][FromVectorNext]_vars

SpecCollective == Init /\ [][CollectiveNext]_vars

SpecInterface == Init /\ [][InterfaceNext]_vars

\* the runtime runs every task that can take a step
SpecLocks == Init /\ [][LocksNext]_vars /\ \A t \in Tasks : WF_vars(LockStep(t))

====
